---------------------------- MODULE Spec2Model ----------------------------
(***************************************************************************)
(* Certification-table pipeline of sieve-goldbach (src/bin/summarize*.py). *)
(*                                                                         *)
(*   SpecSeries  nearest_lambda_with_bracket and tail_stats applied to a   *)
(*               loaded series of (n, lambda) pairs                        *)
(*   SpecBatch   process_file: the backward window loop of the plotting    *)
(*               summarizers (summarizeboundratio / summarizelambdabound)  *)
(*   Spec        main of the cert-table builders (summarizeboundscert /    *)
(*               summarizelambdaboundcert): one step per alpha directory   *)
(*   SpecWindow  process_file of summarizeboundratio for every window size *)
(*               --batch-size accepts, over files with a ratio column      *)
(*   SpecRun     the same main over a fixed filesystem, from the listing   *)
(*               of the alpha directories on                               *)
(*   SpecAudit   main of the audit filter (summarizelambdaboundaudit)      *)
(*   SpecParse   the metric parsers of the four summarizers                *)
(*   SpecIndex   the sample index of one dual-index row, as the plotting   *)
(*               summarizer and as the cert builder take it                *)
(*   SpecPlot    main of the plotting summarizers: the loop over the alpha *)
(*               grid, format_alpha, process_file and the final write      *)
(*                                                                         *)
(* Numbers.  Metric values are exact integers (floating-point rounding is  *)
(* not modelled).  A real target is a fraction <<num, den>> with den > 0.  *)
(* Python's None is the empty tuple <<>>, a present value v is <<v>>.      *)
(***************************************************************************)
EXTENDS Integers, Sequences, FiniteSets, TLC

VARIABLES
    \* ---- SpecSeries
    pairs,        \* the series: sequence of <<n, lambda>>, file order
    target_n,     \* target handed to nearest_lambda_with_bracket, <<num, den>>
    sel_out,      \* its result: None or <<lambda>>
    count,        \* count handed to tail_stats
    tail_out,     \* its result: [mean, std], each None or <<number>>
    series_pc,    \* "ready" | "nearest" | "tail"
    \* ---- SpecBatch
    flavour,      \* "ratio" (summarizeboundratio) | "lambda" (summarizelambdabound)
    file_rows,    \* rows of the input file, in file order
    batch_size,   \* window size W
    batch_start,  \* start of the next window (0-based, as in the code)
    windows,      \* history: <<batch_start, batch_end>> of every window scanned
    emitted,      \* history: for every window scanned, the row it appended (or None)
    results,      \* the list process_file returns
    batch_pc,     \* "open" | "loop" | "done" | "error"
    \* ---- Spec
    cert_flavour, \* "bounds" (summarizeboundscert) | "lambda" (summarizelambdaboundcert)
    alpha_dirs,   \* the alphas of the sorted alpha directories
    tail_count,   \* --tail-count
    dir_idx,      \* number of alpha directories already iterated
    last_read,    \* the two input files of the last iteration: [min_file, max_file]
    rows,         \* the rows accumulated by main
    calls,        \* number of selector / tail_stats calls made so far
    output,       \* the output file: None or <<rows written>>
    cert_diag,    \* what main printed on stderr, in order
    listing,      \* SpecRun: the alpha directories as the filesystem enumerates them
    sorted_dirs,  \* SpecRun: the same entries after sorted(..., key=float(tag))
    cert_pc,      \* "list" | "loop" | "written" | "failed" | "crashed"
    \* ---- SpecAudit
    audit_in,     \* the input file (cert_file)
    tolerance,    \* --tolerance, a decimal <<c, f>>
    audit_idx,    \* number of input rows already examined
    kept,         \* the rows kept so far
    out_before,   \* the output file before the run: None (absent) or <<table>>
    audit_out,    \* the output file: None (absent) or <<table>>
    audit_diag,   \* what main printed on stderr, in order
    audit_pc,     \* "start" | "loop" | "written" | "failed" | "crashed"
    \* ---- SpecParse
    metric_text,  \* the text of a metric field
    parsed,       \* per summarizer: [done, val], val the result of its parser
    \* ---- SpecIndex
    index_row,    \* one row of a lambdabound file
    index_out,    \* per reader: [done, res], res what it made of the row's index
    \* ---- SpecPlot
    plot_flavour, \* "ratio" (summarizeboundratio) | "lambda" (summarizelambdabound)
    plot_batch,   \* the window size handed to process_file
    plot_tree,    \* output/: directory name (the text after "alpha-") -> its file
    grid_idx,     \* number of grid alphas already handled
    tags,         \* the results of format_alpha so far, in grid order
    all_results,  \* the rows accumulated by main
    plot_diag,    \* what main printed on stderr, in order
    plot_out,     \* the output file: None or <<rows written>>
    plot_pc       \* "loop" | "written" | "failed"

series_vars == <<pairs, target_n, sel_out, count, tail_out, series_pc>>
batch_vars  == <<flavour, file_rows, batch_size, batch_start, windows, emitted,
                 results, batch_pc>>
cert_vars   == <<cert_flavour, alpha_dirs, tail_count, dir_idx, last_read, rows,
                 calls, output, cert_diag, listing, sorted_dirs, cert_pc>>
audit_vars  == <<audit_in, tolerance, audit_idx, kept, out_before, audit_out, audit_diag,
                 audit_pc>>
parse_vars  == <<metric_text, parsed>>
index_vars  == <<index_row, index_out>>
plot_vars   == <<plot_flavour, plot_batch, plot_tree, grid_idx, tags, all_results,
                 plot_diag, plot_out, plot_pc>>
more_vars   == <<index_vars, plot_vars>>
ext_vars    == <<audit_vars, parse_vars, more_vars>>
vars == <<series_vars, batch_vars, cert_vars, ext_vars>>

None == <<>>
Some(v) == <<v>>

Abs(x) == IF x < 0 THEN 0 - x ELSE x
Min2(a, b) == IF a < b THEN a ELSE b
Max2(a, b) == IF a > b THEN a ELSE b

SeqsUpTo(S, k) == UNION {[1..m -> S] : m \in 0..k}

(***************************************************************************)
(* Bounds of the series model.                                             *)
(***************************************************************************)
MaxLen == 3      \* longest series
MaxN   == 3      \* sample indices 1..MaxN
MaxVal == 2      \* metric values 1..MaxVal
MaxK   == 3      \* tail counts 1..MaxK

(***************************************************************************)
(* nearest_lambda_with_bracket (summarizeboundscert.py:72-88, identical in *)
(* summarizelambdaboundcert.py:91-105).  Integer sample indices are        *)
(* compared with the real target t = <<num, den>> by cross-multiplying.    *)
(***************************************************************************)
LeTarget(n, t) == n * t[2] <= t[1]          \* n_val <= target_n
GeTarget(n, t) == n * t[2] >= t[1]          \* n_val >= target_n
DistNum(n, t)  == Abs(t[1] - n * t[2])      \* abs(target_n - n) * den

\* faulty variant: the last record seen on each side of the target is kept
BracketStepLastSeen(ba, p, t) ==
    <<IF LeTarget(p[1], t) THEN p ELSE ba[1],
      IF GeTarget(p[1], t) THEN p ELSE ba[2]>>
\* one iteration of the for loop: ba = <<below, above>>
BracketStep(ba, p, t) ==
    LET below == ba[1]
        above == ba[2]
        b2 == IF LeTarget(p[1], t) /\ (below = None \/ p[1] > below[1])
              THEN p ELSE below
        a2 == IF GeTarget(p[1], t) /\ (above = None \/ p[1] < above[1])
              THEN p ELSE above
    IN <<b2, a2>>

RECURSIVE BracketScan(_, _, _, _)
BracketScan(ps, i, ba, t) ==
    IF i > Len(ps) THEN ba
    ELSE BracketScan(ps, i + 1, BracketStep(ba, ps[i], t), t)

\* faulty variant: a missing side falls back to the one-sided nearest record
nearest_one_sided(ps, t) ==
    LET ba == BracketScan(ps, 1, <<None, None>>, t)
        below == ba[1]
        above == ba[2]
    IN IF below = None /\ above = None THEN None
       ELSE IF below = None THEN Some(above[2])
       ELSE IF above = None THEN Some(below[2])
       ELSE IF DistNum(below[1], t) <= DistNum(above[1], t) THEN Some(below[2])
       ELSE Some(above[2])

\* faulty variant: ties go to the record above the target
nearest_tie_above(ps, t) ==
    LET ba == BracketScan(ps, 1, <<None, None>>, t)
        below == ba[1]
        above == ba[2]
    IN IF below = None \/ above = None THEN None
       ELSE IF DistNum(below[1], t) < DistNum(above[1], t) THEN Some(below[2])
       ELSE Some(above[2])

nearest_lambda_with_bracket(ps, t) ==
    LET ba == BracketScan(ps, 1, <<None, None>>, t)
        below == ba[1]
        above == ba[2]
    IN IF below = None \/ above = None THEN None
       ELSE IF DistNum(below[1], t) <= DistNum(above[1], t) THEN Some(below[2])
       ELSE Some(above[2])

(***************************************************************************)
(* tail_stats (summarizeboundscert.py:91-98, summarizelambdaboundcert.py:  *)
(* 108-114).  Fractions <<num, den>> follow the code's arithmetic exactly; *)
(* math.sqrt is a fixed-point square root in units of 1/StdScale.          *)
(***************************************************************************)
StdScale == 1000

RECURSIVE ISqrtBin(_, _, _)
ISqrtBin(n, lo, hi) ==      \* largest r in lo..hi with r*r <= n
    IF lo >= hi THEN lo
    ELSE LET mid == (lo + hi + 1) \div 2
         IN IF mid * mid <= n THEN ISqrtBin(n, mid, hi)
            ELSE ISqrtBin(n, lo, mid - 1)
ISqrt(n) == ISqrtBin(n, 0, 46340)

\* math.sqrt of the fraction v, in units of 1/StdScale
Sqrt(v) == ISqrt((v[1] * StdScale * StdScale) \div v[2])

RECURSIVE SumSeq(_, _)
SumSeq(s, i) == IF i > Len(s) THEN 0 ELSE s[i] + SumSeq(s, i + 1)

\* pairs[-count:] for count >= 1
TailSlice(ps, k) ==
    IF k >= Len(ps) THEN ps ELSE SubSeq(ps, Len(ps) - k + 1, Len(ps))

\* faulty variant: the tail_stats of a partial window when fewer than count values exist
tail_stats_partial(ps, k) ==
    IF Len(ps) = 0 THEN [mean |-> None, std |-> None]
    ELSE LET tail == [i \in 1..Min2(k, Len(ps)) |-> TailSlice(ps, k)[i][2]]
             m    == Len(tail)
             s    == SumSeq(tail, 1)
             sq   == [i \in 1..m |-> (tail[i] * m - s) * (tail[i] * m - s)]
         IN [mean |-> Some(<<s, m>>),
             std  |-> Some(Sqrt(<<SumSeq(sq, 1), m * m * m>>))]

\* faulty variant: sample standard deviation (divisor count - 1)
tail_stats_sample(ps, k) ==
    IF Len(ps) < k THEN [mean |-> None, std |-> None]
    ELSE LET tail == [i \in 1..k |-> TailSlice(ps, k)[i][2]]
             s    == SumSeq(tail, 1)
             sq   == [i \in 1..k |-> (tail[i] * k - s) * (tail[i] * k - s)]
         IN [mean |-> Some(<<s, k>>),
             std  |-> IF k = 1 THEN Some(0)
                      ELSE Some(Sqrt(<<SumSeq(sq, 1), k * k * (k - 1)>>))]

tail_stats(ps, k) ==
    IF Len(ps) < k THEN [mean |-> None, std |-> None]
    ELSE LET tail == [i \in 1..k |-> TailSlice(ps, k)[i][2]]
             s    == SumSeq(tail, 1)
             \* mean = s / k; (x - mean) ** 2 = (x*k - s)^2 / k^2
             sq   == [i \in 1..k |-> (tail[i] * k - s) * (tail[i] * k - s)]
             \* variance = sum(sq) / k^2 / k
         IN [mean |-> Some(<<s, k>>),
             std  |-> Some(Sqrt(<<SumSeq(sq, 1), k * k * k>>))]

(***************************************************************************)
(* SpecSeries: a loaded series, then one call of the selector or of the    *)
(* tail statistics.                                                        *)
(***************************************************************************)
SeriesLower == <<<<100, 1>>, <<200, 2>>, <<300, 3>>>>
SeriesUpper == <<<<150, 10>>, <<250, 20>>>>
SeriesK2    == <<<<1, 3>>, <<2, 5>>>>

SeriesSet == SeqsUpTo((1..MaxN) \X (1..MaxVal), MaxLen)
                 \cup {SeriesLower, SeriesUpper, SeriesK2}
\* integer and half-integer targets around the indices, and the spec's T = 200
TargetSet == {<<h, 2>> : h \in 0..(2 * MaxN + 2)} \cup {<<200, 1>>}
CountSet  == 1..MaxK

SeriesIdle ==
    /\ pairs = <<>> /\ target_n = <<0, 1>> /\ sel_out = None
    /\ count = 0 /\ tail_out = [mean |-> None, std |-> None]
    /\ series_pc = "idle"

BatchIdle ==
    /\ flavour = "ratio" /\ file_rows = <<>> /\ batch_size = 0
    /\ batch_start = 0 /\ windows = <<>> /\ emitted = <<>> /\ results = <<>>
    /\ batch_pc = "idle"

CertIdle ==
    /\ cert_flavour = "bounds" /\ alpha_dirs = <<>> /\ tail_count = 0
    /\ dir_idx = 0 /\ last_read = None /\ rows = <<>> /\ calls = 0
    /\ output = None /\ cert_diag = <<>> /\ listing = <<>> /\ sorted_dirs = <<>>
    /\ cert_pc = "idle"

AuditIdle ==
    /\ audit_in = <<>> /\ tolerance = <<0, 0>> /\ audit_idx = 0 /\ kept = <<>>
    /\ out_before = None /\ audit_out = None /\ audit_diag = <<>>
    /\ audit_pc = "idle"

ParseIdle == metric_text = <<>> /\ parsed = <<>>

IndexIdle == index_row = <<>> /\ index_out = <<>>

PlotIdle ==
    /\ plot_flavour = "ratio" /\ plot_batch = 0 /\ plot_tree = <<>>
    /\ grid_idx = 0 /\ tags = <<>> /\ all_results = <<>> /\ plot_diag = <<>>
    /\ plot_out = None /\ plot_pc = "idle"

MoreIdle == IndexIdle /\ PlotIdle

ExtIdle == AuditIdle /\ ParseIdle /\ MoreIdle

InitSeries ==
    /\ pairs \in SeriesSet
    /\ target_n = <<0, 1>> /\ sel_out = None
    /\ count = 0 /\ tail_out = [mean |-> None, std |-> None]
    /\ series_pc = "ready"
    /\ BatchIdle /\ CertIdle /\ ExtIdle

CallNearest ==
    /\ series_pc = "ready"
    /\ \E t \in TargetSet :
          /\ target_n' = t
          /\ sel_out' = nearest_lambda_with_bracket(pairs, t)
    /\ series_pc' = "nearest"
    /\ UNCHANGED <<pairs, count, tail_out, batch_vars, cert_vars, ext_vars>>

CallTailStats ==
    /\ series_pc = "ready"
    /\ \E k \in CountSet :
          /\ count' = k
          /\ tail_out' = tail_stats(pairs, k)
    /\ series_pc' = "tail"
    /\ UNCHANGED <<pairs, target_n, sel_out, batch_vars, cert_vars, ext_vars>>

NextSeries == CallNearest \/ CallTailStats

SpecSeries == InitSeries /\ [][NextSeries]_vars

(***************************************************************************)
(* Claims about the selector.                                              *)
(***************************************************************************)
Idx == 1..Len(pairs)
HasBelow == \E i \in Idx : LeTarget(pairs[i][1], target_n)
HasAbove == \E i \in Idx : GeTarget(pairs[i][1], target_n)

\* C1: without a record at or below the target, or without one at or above
\* it (the empty series included), the selector returns None; it never
\* returns the value of a one-sided nearest record.
C1_NoBracketNoValue ==
    (series_pc = "nearest" /\ (~HasBelow \/ ~HasAbove)) => sel_out = None

C1_Witness ==
    /\ series_pc = "nearest"
    /\ Len(pairs) >= 2
    /\ ~HasAbove /\ HasBelow
    /\ sel_out = None

\* brute-force bracket: largest index <= T, smallest index >= T, and the
\* first record in file order that carries a given index
BelowN == CHOOSE n \in {pairs[i][1] : i \in Idx} :
             /\ LeTarget(n, target_n)
             /\ \A j \in Idx : LeTarget(pairs[j][1], target_n) => pairs[j][1] <= n
AboveN == CHOOSE n \in {pairs[i][1] : i \in Idx} :
             /\ GeTarget(n, target_n)
             /\ \A j \in Idx : GeTarget(pairs[j][1], target_n) => pairs[j][1] >= n
FirstWith(n) ==
    pairs[CHOOSE i \in Idx : pairs[i][1] = n /\ \A j \in 1..(i - 1) : pairs[j][1] # n][2]

\* C2: with a bracket the result is below's value when
\* |T - below.n| <= |above.n - T| and above's value otherwise; the chosen
\* record is at minimal distance over the whole series, a tie goes to the
\* lower index, an exact match returns the matching record's value; the
\* two worked examples give 2.0 and 10.0.
C2_NearestOfBracket ==
    (series_pc = "nearest" /\ HasBelow /\ HasAbove) =>
        /\ sel_out = Some(IF DistNum(BelowN, target_n) <= DistNum(AboveN, target_n)
                          THEN FirstWith(BelowN) ELSE FirstWith(AboveN))
        /\ \E i \in Idx :
              /\ sel_out = Some(pairs[i][2])
              /\ \A j \in Idx : DistNum(pairs[i][1], target_n) <= DistNum(pairs[j][1], target_n)
        /\ (DistNum(BelowN, target_n) = DistNum(AboveN, target_n))
              => sel_out = Some(FirstWith(BelowN))
        /\ (\E i \in Idx : DistNum(pairs[i][1], target_n) = 0)
              => sel_out = Some(FirstWith(BelowN)) /\ DistNum(BelowN, target_n) = 0
        /\ (pairs = SeriesLower /\ target_n = <<200, 1>>) => sel_out = Some(2)
        /\ (pairs = SeriesUpper /\ target_n = <<200, 1>>) => sel_out = Some(10)

C2_Witness ==
    /\ series_pc = "nearest"
    /\ pairs = SeriesUpper /\ target_n = <<200, 1>>
    /\ HasBelow /\ HasAbove /\ BelowN = 150 /\ AboveN = 250
    /\ sel_out = Some(10)

(***************************************************************************)
(* Claims about the tail statistics.                                       *)
(***************************************************************************)
\* C7: with fewer than K values in the series both the mean and the
\* standard deviation are None: no statistic of a partial window.
C7_ShortSeriesNoStats ==
    (series_pc = "tail" /\ Len(pairs) < count) =>
        (tail_out.mean = None /\ tail_out.std = None)

C7_Witness ==
    /\ series_pc = "tail"
    /\ Len(pairs) >= 1 /\ Len(pairs) < count
    /\ tail_out.mean = None /\ tail_out.std = None

\* the last K values in file order, summed directly
RECURSIVE LastSum(_, _)
LastSum(k, pow) ==      \* sum of x^pow (pow = 1 or 2) over the last k records
    IF k = 0 THEN 0
    ELSE LET x == pairs[Len(pairs) - k + 1][2]
         IN (IF pow = 1 THEN x ELSE x * x) + LastSum(k - 1, pow)

\* C8: with at least K values the mean is the sum of the last K values in
\* file order divided by K, and the standard deviation is the population
\* one: its square is (K*sum(x^2) - sum(x)^2) / K^2, here up to the
\* resolution 1/StdScale; K = 2 over [3.0, 5.0] gives 4.0 and 1.0.
C8_LastKPopulation ==
    (series_pc = "tail" /\ Len(pairs) >= count) =>
        LET S == LastSum(count, 1)
            Q == LastSum(count, 2)
            V == count * Q - S * S          \* variance * count^2
        IN /\ tail_out.mean # None /\ tail_out.std # None
           /\ tail_out.mean[1][1] * count = S * tail_out.mean[1][2]
           /\ LET r == tail_out.std[1]
              IN /\ r >= 0
                 /\ r * r * count * count <= V * StdScale * StdScale
                 /\ V * StdScale * StdScale < (r + 1) * (r + 1) * count * count
           /\ (pairs = SeriesK2 /\ count = 2) =>
                 /\ tail_out.mean[1][1] = 4 * tail_out.mean[1][2]
                 /\ tail_out.std[1] = StdScale

C8_Witness ==
    /\ series_pc = "tail"
    /\ pairs = SeriesK2 /\ count = 2
    /\ tail_out.mean = Some(<<8, 2>>)
    /\ tail_out.std = Some(StdScale)

(***************************************************************************)
(* Claims about the order of the series.                                   *)
(***************************************************************************)
\* the reorderings of a series
PermsOf(ps) ==
    {[i \in 1..Len(ps) |-> ps[f[i]]] : f \in Permutations(1..Len(ps))}
DistinctIndices == \A i, j \in Idx : i # j => pairs[i][1] # pairs[j][1]

\* C28: when the sample indices of the series are pairwise distinct, the
\* selector returns at the target the same result for every reordering of
\* the series.
C28_SelectorOrderFree ==
    (series_pc = "nearest" /\ DistinctIndices) =>
        \A q \in PermsOf(pairs) :
            nearest_lambda_with_bracket(q, target_n) = sel_out

\* a non-monotonic series of three distinct indices with a bracket
C28_Witness ==
    /\ series_pc = "nearest" /\ DistinctIndices
    /\ Len(pairs) = 3 /\ pairs[1][1] > pairs[2][1] /\ pairs[3][1] > pairs[2][1]
    /\ pairs[1][2] # pairs[2][2]
    /\ sel_out # None
    /\ \E q \in PermsOf(pairs) : q # pairs

\* the tail statistics of a series with distinct indices do change with a
\* reordering
C28_TailWitness ==
    /\ series_pc = "tail" /\ DistinctIndices /\ tail_out.mean # None
    /\ \E q \in PermsOf(pairs) : tail_stats(q, count) # tail_out

(***************************************************************************)
(* process_file of the plotting summarizers (summarizeboundratio.py:69-143 *)
(* and summarizelambdabound.py:68-135).                                    *)
(*                                                                         *)
(* A field of a row is a record [k, v]: an index field is "blank", "bad"   *)
(* (not an integer) or "int" with value v; a metric field is "blank",      *)
(* "bad" (not a number), "sentinel" (the text 0.000000) or "num" with      *)
(* value v; "absent" is the None of a row shorter than the header;         *)
(* "padded" is the text 0.000000 with blanks around it.  "blank" covers    *)
(* the empty text and a text of blanks only; every other spelling of a     *)
(* number, zero included, is "num".                                        *)
(* A row is [n0, n1, lam]: in the ratio flavour n0 is column n   *)
(* and lam is column lambda; in the lambda flavour n0, n1 are columns n_0, *)
(* n_1 and lam is the Lambda_min / Lambda_max column.                      *)
(***************************************************************************)
MaxRows == 3     \* longest ratio-flavour file
MaxW    == 2     \* --batch-size 1..MaxW (ratio flavour)
LambdaBatchSize == 12    \* summarizelambdabound.py:79

Blank      == [k |-> "blank", v |-> 0]
Bad        == [k |-> "bad", v |-> 0]
Sentinel   == [k |-> "sentinel", v |-> 0]
Absent     == [k |-> "absent", v |-> 0]     \* a short row: DictReader gives None
PaddedSentinel == [k |-> "padded", v |-> 0]
IntF(n)    == [k |-> "int", v |-> n]
NumF(x)    == [k |-> "num", v |-> x]

\* summarizeboundratio.parse_float: no sentinel, 0.000000 is the number 0
parse_float_ratio(f) ==
    IF f.k \in {"absent", "blank", "bad"} THEN None ELSE Some(f.v)

\* summarizelambdabound.parse_lambda: blank, 0.000000 and non-numbers are
\* None; the text is compared with '0.000000' as it is, not stripped
parse_lambda(f) ==
    IF f.k \in {"num", "padded"} THEN Some(f.v) ELSE None

\* the scan state of one window (the ratio extrema exist in
\* summarizeboundratio only, lines 89-92)
ScanInit == [min_lambda |-> None, min_lambda_n |-> None,
             max_lambda |-> None, max_lambda_n |-> None,
             min_ratio |-> None, min_ratio_n |-> None,
             max_ratio |-> None, max_ratio_n |-> None, raised |-> FALSE]

\* faulty variant: an equal value replaces the recorded extremum (last seen wins)
UpdateExtremaLastSeen(acc, n_val, lambda_val) ==
    LET lo == acc.min_lambda = None \/ lambda_val <= acc.min_lambda[1]
        hi == acc.max_lambda = None \/ lambda_val >= acc.max_lambda[1]
    IN [acc EXCEPT !.min_lambda   = IF lo THEN Some(lambda_val) ELSE @,
                   !.min_lambda_n = IF lo THEN Some(n_val) ELSE @,
                   !.max_lambda   = IF hi THEN Some(lambda_val) ELSE @,
                   !.max_lambda_n = IF hi THEN Some(n_val) ELSE @]

\* lines 118-123 / 108-114: strict comparisons keep the first-seen extremum
UpdateExtrema(acc, n_val, lambda_val) ==
    LET lo == acc.min_lambda = None \/ lambda_val < acc.min_lambda[1]
        hi == acc.max_lambda = None \/ lambda_val > acc.max_lambda[1]
    IN [acc EXCEPT !.min_lambda   = IF lo THEN Some(lambda_val) ELSE @,
                   !.min_lambda_n = IF lo THEN Some(n_val) ELSE @,
                   !.max_lambda   = IF hi THEN Some(lambda_val) ELSE @,
                   !.max_lambda_n = IF hi THEN Some(n_val) ELSE @]

\* lines 107-114 of summarizeboundratio.py: the ratio extrema of the window
UpdateRatio(acc, n_val, ratio_val) ==
    LET lo == acc.min_ratio = None \/ ratio_val < acc.min_ratio[1]
        hi == acc.max_ratio = None \/ ratio_val > acc.max_ratio[1]
    IN [acc EXCEPT !.min_ratio   = IF lo THEN Some(ratio_val) ELSE @,
                   !.min_ratio_n = IF lo THEN Some(n_val) ELSE @,
                   !.max_ratio   = IF hi THEN Some(ratio_val) ELSE @,
                   !.max_ratio_n = IF hi THEN Some(n_val) ELSE @]

\* summarizeboundratio.py:98-123, one row of the batch;
\* row.get('ratio', '') is '' when the file has no ratio column
ScanRowRatio(acc, row) ==
    IF row.n0.k # "int" THEN acc                 \* blank or ValueError: continue
    ELSE LET ratio_val  == parse_float_ratio(IF "ratio" \in DOMAIN row
                                             THEN row.ratio ELSE Blank)
             lambda_val == parse_float_ratio(row.lam)
             acc2 == IF ratio_val = None THEN acc
                     ELSE UpdateRatio(acc, row.n0.v, ratio_val[1])
         IN IF lambda_val = None THEN acc2
            ELSE UpdateExtrema(acc2, row.n0.v, lambda_val[1])

\* summarizelambdabound.py:99-114, one row of the batch; int() of a
\* non-integer text raises ValueError, which leaves the loop
ScanRowLambda(acc, row) ==
    LET lambda_val == parse_lambda(row.lam)
        n_val_str  == IF row.n0.k # "blank" THEN row.n0 ELSE row.n1
    IN IF lambda_val = None THEN acc
       ELSE IF n_val_str.k = "blank" THEN acc
       ELSE IF n_val_str.k = "bad" THEN [acc EXCEPT !.raised = TRUE]
       ELSE UpdateExtrema(acc, n_val_str.v, lambda_val[1])

RECURSIVE ScanBatch(_, _, _, _)
ScanBatch(fl, batch, i, acc) ==
    IF i > Len(batch) \/ acc.raised THEN acc
    ELSE ScanBatch(fl, batch, i + 1,
                   IF fl = "ratio" THEN ScanRowRatio(acc, batch[i])
                   ELSE ScanRowLambda(acc, batch[i]))

\* rows[a:b] for 0 <= a
PySlice(s, a, b) == SubSeq(s, a + 1, Min2(b, Len(s)))

\* faulty variant: the index of the minimum is reported for the maximum too
BatchResultOneIndex(acc) ==
    [n_min_lambda |-> acc.min_lambda_n, min_lambda |-> acc.min_lambda,
     n_max_lambda |-> acc.min_lambda_n, max_lambda |-> acc.max_lambda]
\* the dict appended to results (alpha is the same for every row of a
\* file); lines 127-133 / 118-124: the ratio extrema are not among its keys
BatchResult(acc) ==
    [n_min_lambda |-> acc.min_lambda_n, min_lambda |-> acc.min_lambda,
     n_max_lambda |-> acc.max_lambda_n, max_lambda |-> acc.max_lambda]

(***************************************************************************)
(* Input files of SpecBatch.  A usable index of the row at position i is   *)
(* the integer i (indices increase along the file, as upstream logs do).   *)
(***************************************************************************)
MaxIter == 3     \* iterations followed of a loop that a window size W <= 0 never leaves
MetricFields == {Blank, Bad, Sentinel, NumF(1), NumF(2)}

RatioShapes  == {[n0 |-> a, n1 |-> Blank, lam |-> m] :
                    a \in {Blank, Bad, IntF(0)}, m \in MetricFields}
LambdaShapes == {[n0 |-> a, n1 |-> b, lam |-> m] :
                    a \in {Blank, Bad, IntF(0)}, b \in {Blank, Bad, IntF(0)},
                    m \in MetricFields}
                 \ {[n0 |-> a, n1 |-> b, lam |-> m] :
                    a \in {Bad, IntF(0)}, b \in {Bad}, m \in MetricFields}
FillerShapes == {[n0 |-> IntF(0), n1 |-> Blank, lam |-> m] : m \in {Blank, NumF(1)}}

AtPos(f, i)  == IF f.k = "int" THEN IntF(i) ELSE f
Number(shapes) ==
    [i \in 1..Len(shapes) |->
        [n0 |-> AtPos(shapes[i].n0, i), n1 |-> AtPos(shapes[i].n1, i),
         lam |-> shapes[i].lam]]

RatioFiles  == {Number(sh) : sh \in SeqsUpTo(RatioShapes, MaxRows)}
\* lambda flavour: a free first row, a run of equal rows, a free last row
LambdaFiles ==
    {Number(h \o [i \in 1..m |-> f] \o t) :
        h \in SeqsUpTo(LambdaShapes, 1), t \in SeqsUpTo(LambdaShapes, 1),
        f \in FillerShapes,
        m \in {0, LambdaBatchSize - 1, LambdaBatchSize}}

InitBatch ==
    /\ flavour \in {"ratio", "lambda"}
    /\ IF flavour = "ratio"
       THEN file_rows \in RatioFiles /\ batch_size \in 1..MaxW
       ELSE file_rows \in LambdaFiles /\ batch_size = LambdaBatchSize
    /\ batch_start = 0 /\ windows = <<>> /\ emitted = <<>> /\ results = <<>>
    /\ batch_pc = "open"
    /\ SeriesIdle /\ CertIdle /\ ExtIdle

num_rows == Len(file_rows)

\* lines 73-82 / 72-86: read the rows, return [] for an empty file, else
\* place the most recent window
BatchOpen ==
    /\ batch_pc = "open"
    /\ IF num_rows = 0
       THEN batch_pc' = "done" /\ UNCHANGED batch_start
       ELSE /\ batch_start' = Max2(0, num_rows - batch_size)
            /\ batch_pc' = "loop"
    /\ UNCHANGED <<flavour, file_rows, batch_size, windows, emitted, results,
                   series_vars, cert_vars, ext_vars>>

\* one iteration of `while batch_start >= 0` (lines 84-137 / 89-129); an
\* exception raised by the scan is caught by lines 139-141 / 131-133,
\* which return []
BatchStep ==
    /\ batch_pc = "loop"
    /\ batch_start >= 0
    /\ batch_size < 1 => Len(windows) < MaxIter
    /\ LET batch_end == Min2(batch_start + batch_size, num_rows)
           batch     == PySlice(file_rows, batch_start, batch_end)
           acc       == ScanBatch(flavour, batch, 1, ScanInit)
           keep      == acc.min_lambda # None \/ acc.max_lambda # None
       IN /\ windows' = Append(windows, <<batch_start, batch_end>>)
          /\ IF acc.raised
             THEN /\ results' = <<>>
                  /\ emitted' = Append(emitted, None)
                  /\ batch_pc' = "error"
                  /\ UNCHANGED batch_start
             ELSE /\ results' = IF keep THEN Append(results, BatchResult(acc))
                                ELSE results
                  /\ emitted' = Append(emitted, IF keep THEN Some(BatchResult(acc))
                                                ELSE None)
                  /\ IF batch_start = 0
                     THEN batch_pc' = "done" /\ UNCHANGED batch_start
                     ELSE /\ batch_start' = Max2(0, batch_start - batch_size)
                          /\ batch_pc' = "loop"
    /\ UNCHANGED <<flavour, file_rows, batch_size, series_vars, cert_vars, ext_vars>>

NextBatch == BatchOpen \/ BatchStep

SpecBatch == InitBatch /\ [][NextBatch]_vars

(***************************************************************************)
(* Claims about the windows of process_file.  Positions are 1-based: the   *)
(* window <<a, b>> covers the file positions a+1 .. b.                     *)
(***************************************************************************)
Win == 1..Len(windows)
Covers(w, i) == windows[w][1] < i /\ i <= windows[w][2]
CeilDiv(a, b) == (a + b - 1) \div b

\* a record: a row with a usable sample index and a defined metric value,
\* read off the fields of the row
IndexField(row) ==
    IF flavour = "ratio" THEN row.n0
    ELSE IF row.n0.k # "blank" THEN row.n0 ELSE row.n1
MetricDefined(row) ==
    IF flavour = "ratio" THEN row.lam.k \in {"num", "sentinel"}
    ELSE row.lam.k = "num"
IsRecord(i) == IndexField(file_rows[i]).k = "int" /\ MetricDefined(file_rows[i])
Records(w) == {i \in 1..num_rows : Covers(w, i) /\ IsRecord(i)}
ValueAt(i) == file_rows[i].lam.v
IndexAt(i) == IndexField(file_rows[i]).v
\* the first record of window w, in file order, among those of I
First(I) == CHOOSE i \in I : \A j \in I : i <= j

\* C3: for W >= 1 a finished run over a series of L records (every row of
\* the file a record) has laid out exactly ceil(L/W) windows and every
\* record lies in exactly one of them.
C3_WindowsPartition ==
    (batch_pc = "done" /\ batch_size >= 1 /\ \A i \in 1..num_rows : IsRecord(i)) =>
        /\ Len(windows) = CeilDiv(num_rows, batch_size)
        /\ \A i \in 1..num_rows : Cardinality({w \in Win : Covers(w, i)}) = 1

\* what process_file returns is the sequence of the rows appended, unless
\* an exception emptied it
ResultsAreEmitted ==
    batch_pc \in {"loop", "done"} =>
        results = [j \in 1..Len(SelectSeq(emitted, LAMBDA e : e # None)) |->
                      SelectSeq(emitted, LAMBDA e : e # None)[j][1]]

\* C4: the row of an emitted window holds the minimum and the maximum of
\* the defined metric values of the window's records, each with the sample
\* index of the first record in file order that attains it.
C4_WindowExtrema ==
    /\ ResultsAreEmitted
    /\ batch_pc \in {"loop", "done"} =>
         \A w \in Win : emitted[w] # None =>
            LET R   == Records(w)
                row == emitted[w][1]
                lo  == {i \in R : \A j \in R : ValueAt(i) <= ValueAt(j)}
                hi  == {i \in R : \A j \in R : ValueAt(i) >= ValueAt(j)}
            IN /\ R # {}
               /\ row.min_lambda = Some(ValueAt(First(lo)))
               /\ row.n_min_lambda = Some(IndexAt(First(lo)))
               /\ row.max_lambda = Some(ValueAt(First(hi)))
               /\ row.n_max_lambda = Some(IndexAt(First(hi)))

\* a window with two records of equal value: the first one is reported
C4_Witness ==
    /\ batch_pc = "done"
    /\ \E w \in Win :
          /\ emitted[w] # None
          /\ \E i, j \in Records(w) :
                /\ i < j /\ ValueAt(i) = ValueAt(j)
                /\ \A k \in Records(w) : ValueAt(i) <= ValueAt(k)
                /\ emitted[w][1].n_min_lambda = Some(IndexAt(i))
                /\ emitted[w][1] \in {results[r] : r \in 1..Len(results)}

\* C5: a window has a row in the output if and only if one of its records
\* has a defined metric value.
RowInOutput(w) == batch_pc # "error" /\ emitted[w] # None
C5_SuppressionRule ==
    batch_pc \in {"done", "error"} =>
        \A w \in Win : RowInOutput(w) <=> Records(w) # {}

\* C15: a row whose sample index is blank or not an integer is excluded on
\* its own: process_file does not fail on it, and every window that holds a
\* record still has its row in the results.
C15_BadIndexRowNotFatal ==
    (\E i \in 1..num_rows : IndexField(file_rows[i]).k # "int") =>
        /\ batch_pc # "error"
        /\ batch_pc = "done" =>
              \A w \in Win : Records(w) # {} =>
                  /\ emitted[w] # None
                  /\ emitted[w][1] \in {results[r] : r \in 1..Len(results)}

\* C6: of two rows of the output, the one emitted first comes from a window
\* whose records all lie later in the file than those of the other window.
C6_MostRecentFirst ==
    batch_pc = "done" =>
        \A w1, w2 \in Win :
            (w1 < w2 /\ emitted[w1] # None /\ emitted[w2] # None) =>
                \A i, j \in 1..num_rows : (Covers(w1, i) /\ Covers(w2, j)) => i > j

\* C27: every emitted row has its four fields defined, min_lambda is at most
\* max_lambda, and each reported sample index is the index of a record of
\* the same window whose metric value is the reported extremum.
C27_EmittedRowWellFormed ==
    batch_pc \in {"loop", "done", "error"} =>
        \A w \in Win : emitted[w] # None =>
            LET row == emitted[w][1]
            IN /\ row.min_lambda # None /\ row.n_min_lambda # None
               /\ row.max_lambda # None /\ row.n_max_lambda # None
               /\ row.min_lambda[1] <= row.max_lambda[1]
               /\ \E i \in Records(w) : /\ IndexAt(i) = row.n_min_lambda[1]
                                        /\ ValueAt(i) = row.min_lambda[1]
               /\ \E i \in Records(w) : /\ IndexAt(i) = row.n_max_lambda[1]
                                        /\ ValueAt(i) = row.max_lambda[1]

\* a window with two records of different values has emitted its row
C27_Witness ==
    /\ batch_pc = "done"
    /\ \E w \in Win :
          /\ emitted[w] # None
          /\ emitted[w][1].min_lambda[1] < emitted[w][1].max_lambda[1]
          /\ emitted[w][1].n_min_lambda # emitted[w][1].n_max_lambda

(***************************************************************************)
(* SpecWindow: process_file of summarizeboundratio.py over files with a    *)
(* ratio column, for every window size argparse lets through               *)
(* (--batch-size has type=int and no lower bound, line 158).               *)
(***************************************************************************)
BatchSizes == (0 - 1)..MaxW

WindowFields == {Blank, NumF(1), NumF(2)}
WindowFiles ==
    {[i \in 1..Len(sh) |-> [n0 |-> IntF(i), n1 |-> Blank,
                            lam |-> sh[i][1], ratio |-> sh[i][2]]] :
        sh \in SeqsUpTo(WindowFields \X WindowFields, MaxRows)}

InitWindow ==
    /\ flavour = "ratio"
    /\ file_rows \in WindowFiles
    /\ batch_size \in BatchSizes
    /\ batch_start = 0 /\ windows = <<>> /\ emitted = <<>> /\ results = <<>>
    /\ batch_pc = "open"
    /\ SeriesIdle /\ CertIdle /\ ExtIdle

SpecWindow == InitWindow /\ [][NextBatch]_vars

\* the rows of window w with a usable index and a defined ratio
RatioRecords(w) ==
    {i \in 1..num_rows : /\ Covers(w, i)
                         /\ file_rows[i].n0.k = "int"
                         /\ file_rows[i].ratio.k = "num"}
RatioAt(i) == file_rows[i].ratio.v
RatioKeys == {"n_min_ratio", "min_ratio", "n_max_ratio", "max_ratio"}

\* C22: the row of every window of a finished run in which a ratio is
\* defined is in the output and carries, next to the lambda extrema, the
\* sample index and the value of the minimum and of the maximum ratio of
\* the window.
C22_RatioExtremaReported ==
    batch_pc = "done" =>
        \A w \in Win : RatioRecords(w) # {} =>
            /\ emitted[w] # None
            /\ RatioKeys \subseteq DOMAIN emitted[w][1]
            /\ \E i \in RatioRecords(w) :
                  /\ emitted[w][1].min_ratio = Some(RatioAt(i))
                  /\ emitted[w][1].n_min_ratio = Some(IndexAt(i))
                  /\ \A j \in RatioRecords(w) : RatioAt(i) <= RatioAt(j)
            /\ \E i \in RatioRecords(w) :
                  /\ emitted[w][1].max_ratio = Some(RatioAt(i))
                  /\ emitted[w][1].n_max_ratio = Some(IndexAt(i))
                  /\ \A j \in RatioRecords(w) : RatioAt(i) >= RatioAt(j)

\* the lambda extrema of the same windows are reported (C4, C27), the
\* ratio of a row has no part in whether its window has a row
RatioNeverDecides ==
    batch_pc = "done" =>
        \A w \in Win : emitted[w] # None <=> Records(w) # {}

\* C26: every iteration of the window loop that does not leave the loop
\* has moved batch_start strictly towards 0, so the loop is left after
\* finitely many iterations, for every series length and every window size
\* of BatchSizes.
C26_WindowLoopTerminates ==
    [][(batch_pc = "loop" /\ batch_pc' = "loop") => batch_start' < batch_start]_vars

\* for a window size W >= 1 the loop does terminate: batch_start decreases
\* until it is 0
LoopDecreasesForPositiveW ==
    [][(batch_pc = "loop" /\ batch_pc' = "loop" /\ batch_size >= 1)
          => (batch_start' < batch_start /\ batch_start' >= 0)]_vars

\* for W <= 0 and a file with rows the loop is never left
LoopNeverLeftForNonPositiveW ==
    (batch_size <= 0 /\ num_rows >= 1) => batch_pc \notin {"done", "error"}

(***************************************************************************)
(* The cert-table builders: main of summarizeboundscert.py (101-198) and   *)
(* of summarizelambdaboundcert.py (117-212), with their load_lambda_pairs, *)
(* parse_float, detect_columns and fmt_value.                              *)
(*                                                                         *)
(* An input file is [exists, header, rows]: header is "ok" when the metric *)
(* and index columns the flavour reads are present, "other" when none of   *)
(* them is.  The bounds flavour reads n0 as column n and lam as column     *)
(* lambda; the lambda flavour reads n0, n1 as n_0, n_1 and lam as the      *)
(* Lambda_min / Lambda_max column.                                         *)
(***************************************************************************)
MaxAlphaExp  == 1     \* alphas 2^0 .. 2^-MaxAlphaExp have directories to pick from
MaxTailCount == 2     \* --tail-count 1..MaxTailCount
ScaleL11 == 480       \* summarizeboundscert.py:152
ScaleL13 == 5760      \* summarizeboundscert.py:153

\* summarizeboundscert.parse_float (35-44): no sentinel
parse_float_bounds(f) ==
    IF f.k \in {"absent", "blank", "bad"} THEN None ELSE Some(f.v)

\* summarizelambdaboundcert.parse_float (29-38): the stripped text
\* 0.000000 is undefined
parse_float_lambda(f) ==
    IF f.k = "num" THEN Some(f.v) ELSE None

Loaded(ps) == [raised |-> FALSE, pairs |-> ps]
Raised     == [raised |-> TRUE, pairs |-> <<>>]

\* summarizeboundscert.load_lambda_pairs (47-62), one row;
\* row.get("n", "").strip() raises AttributeError on the None of a short row
LoadRowBounds(row) ==
    LET lambda_val == parse_float_bounds(row.lam)
    IN IF row.n0.k = "absent" THEN Raised
       ELSE IF row.n0.k = "blank" \/ lambda_val = None THEN Loaded(<<>>)
       ELSE IF row.n0.k = "bad" THEN Loaded(<<>>)    \* ValueError: continue
       ELSE Loaded(<< <<row.n0.v, lambda_val[1]>> >>)

\* summarizelambdaboundcert.load_lambda_pairs (66-81), one row: the first
\* of the columns detect_columns found (41-55: n_0, n_1, then n, each only
\* when the header has it) that is not blank and parses as an integer
LoadRowLambda(row) ==
    LET lambda_val == parse_float_lambda(row.lam)
        n_val == IF row.n0.k = "int" THEN Some(row.n0.v)
                 ELSE IF row.n1.k = "int" THEN Some(row.n1.v)
                 ELSE IF "n" \in DOMAIN row /\ row.n.k = "int" THEN Some(row.n.v)
                 ELSE None
    IN IF lambda_val = None THEN Loaded(<<>>)
       ELSE IF n_val = None THEN Loaded(<<>>)
       ELSE Loaded(<< <<n_val[1], lambda_val[1]>> >>)

RECURSIVE LoadRows(_, _, _, _)
LoadRows(fl, rs, i, ps) ==
    IF i > Len(rs) THEN Loaded(ps)
    ELSE LET one == IF fl = "bounds" THEN LoadRowBounds(rs[i])
                    ELSE LoadRowLambda(rs[i])
         IN IF one.raised THEN Raised
            ELSE LoadRows(fl, rs, i + 1, ps \o one.pairs)

\* a file without the columns: detect_columns finds none and the lambda
\* flavour returns [] (63-65); in the bounds flavour every row.get gives ""
load_lambda_pairs(fl, file) ==
    IF file.header # "ok" THEN Loaded(<<>>) ELSE LoadRows(fl, file.rows, 1, <<>>)

\* f"{value:.5f}": the value in units of 10^-5, rounded half to even;
\* "" is None.  value is None or <<fraction>>
RoundHalfEven(num, den) ==
    LET q == num \div den
        r == num % den
    IN IF 2 * r < den THEN q
       ELSE IF 2 * r > den THEN q + 1
       ELSE IF q % 2 = 0 THEN q ELSE q + 1
fmt_value(value) ==
    IF value = None THEN None
    ELSE Some(RoundHalfEven(value[1][1] * 100000, value[1][2]))

\* target = scale ** 2 / (2.0 * alpha_val), a fraction; alpha = <<num, den>>
Target(scale, alpha) == <<scale * scale * alpha[2], 2 * alpha[1]>>

AsFraction(sel) == IF sel = None THEN None ELSE Some(<<sel[1], 1>>)
StdFraction(std) == IF std = None THEN None ELSE Some(<<std[1], StdScale>>)

BlankRow(alpha) ==
    [alpha |-> alpha,
     L11_lo |-> None, L11_hi |-> None, L13_lo |-> None, L13_hi |-> None,
     Lfinal_lo |-> None, Lfinal_lo_std |-> None,
     Lfinal_hi |-> None, Lfinal_hi_std |-> None]

\* faulty variant: without an L13 bracket the tail fields of the series
\* are left blank too
FullRowCoupled(alpha, min_pairs, max_pairs, k) ==
    LET target_l11 == Target(ScaleL11, alpha)
        target_l13 == Target(ScaleL13, alpha)
        lo == tail_stats(min_pairs, k)
        hi == tail_stats(max_pairs, k)
        l13_lo == nearest_lambda_with_bracket(min_pairs, target_l13)
        l13_hi == nearest_lambda_with_bracket(max_pairs, target_l13)
    IN [alpha |-> alpha,
        L11_lo |-> fmt_value(AsFraction(nearest_lambda_with_bracket(min_pairs, target_l11))),
        L11_hi |-> fmt_value(AsFraction(nearest_lambda_with_bracket(max_pairs, target_l11))),
        L13_lo |-> fmt_value(AsFraction(l13_lo)),
        L13_hi |-> fmt_value(AsFraction(l13_hi)),
        Lfinal_lo |-> IF l13_lo = None THEN None ELSE fmt_value(lo.mean),
        Lfinal_lo_std |-> IF l13_lo = None THEN None ELSE fmt_value(StdFraction(lo.std)),
        Lfinal_hi |-> IF l13_hi = None THEN None ELSE fmt_value(hi.mean),
        Lfinal_hi_std |-> IF l13_hi = None THEN None ELSE fmt_value(StdFraction(hi.std))]

\* lines 152-173 / 166-187
FullRow(alpha, min_pairs, max_pairs, k) ==
    LET target_l11 == Target(ScaleL11, alpha)
        target_l13 == Target(ScaleL13, alpha)
        lo == tail_stats(min_pairs, k)
        hi == tail_stats(max_pairs, k)
    IN [alpha |-> alpha,
        L11_lo |-> fmt_value(AsFraction(nearest_lambda_with_bracket(min_pairs, target_l11))),
        L11_hi |-> fmt_value(AsFraction(nearest_lambda_with_bracket(max_pairs, target_l11))),
        L13_lo |-> fmt_value(AsFraction(nearest_lambda_with_bracket(min_pairs, target_l13))),
        L13_hi |-> fmt_value(AsFraction(nearest_lambda_with_bracket(max_pairs, target_l13))),
        Lfinal_lo |-> fmt_value(lo.mean),
        Lfinal_lo_std |-> fmt_value(StdFraction(lo.std)),
        Lfinal_hi |-> fmt_value(hi.mean),
        Lfinal_hi_std |-> fmt_value(StdFraction(hi.std))]

\* faulty variant: a missing input location gets a row of blanks
cert_body_blank_on_missing(fl, alpha, min_file, max_file, k, acc) ==
    IF ~min_file.exists \/ ~max_file.exists
    THEN [acc EXCEPT !.rows = Append(acc.rows, BlankRow(alpha))]
    ELSE LET min_load  == load_lambda_pairs(fl, min_file)
             max_load  == load_lambda_pairs(fl, max_file)
             min_pairs == min_load.pairs
             max_pairs == max_load.pairs
         IN IF min_load.raised \/ max_load.raised
            THEN [acc EXCEPT !.raised = TRUE]
            ELSE IF min_pairs = <<>> \/ max_pairs = <<>>
            THEN [acc EXCEPT !.rows = Append(acc.rows, BlankRow(alpha))]
            ELSE IF alpha[1] = 0                    \* ZeroDivisionError, 152
            THEN [acc EXCEPT !.raised = TRUE]
            ELSE [acc EXCEPT !.rows = Append(acc.rows,
                                             FullRow(alpha, min_pairs, max_pairs, k)),
                             !.calls = acc.calls + 6]

\* faulty variant: the blank row is appended only when both series are empty
cert_body_blank_when_both_empty(fl, alpha, min_file, max_file, k, acc) ==
    IF ~min_file.exists \/ ~max_file.exists THEN acc
    ELSE LET min_load  == load_lambda_pairs(fl, min_file)
             max_load  == load_lambda_pairs(fl, max_file)
             min_pairs == min_load.pairs
             max_pairs == max_load.pairs
         IN IF min_load.raised \/ max_load.raised
            THEN [acc EXCEPT !.raised = TRUE]
            ELSE IF min_pairs = <<>> /\ max_pairs = <<>>
            THEN [acc EXCEPT !.rows = Append(acc.rows, BlankRow(alpha))]
            ELSE IF alpha[1] = 0                    \* ZeroDivisionError, 152
            THEN [acc EXCEPT !.raised = TRUE]
            ELSE [acc EXCEPT !.rows = Append(acc.rows,
                                             FullRow(alpha, min_pairs, max_pairs, k)),
                             !.calls = acc.calls + 6]

\* the body of `for alpha_dir in alpha_dirs` (lines 123-173 / 138-187):
\* acc = [rows, calls, raised] before the iteration, the result is acc
\* after it; raised: an uncaught exception left main
cert_body(fl, alpha, min_file, max_file, k, acc) ==
    IF ~min_file.exists \/ ~max_file.exists THEN acc            \* continue
    ELSE LET min_load  == load_lambda_pairs(fl, min_file)
             max_load  == load_lambda_pairs(fl, max_file)
             min_pairs == min_load.pairs
             max_pairs == max_load.pairs
         IN IF min_load.raised \/ max_load.raised
            THEN [acc EXCEPT !.raised = TRUE]
            ELSE IF min_pairs = <<>> \/ max_pairs = <<>>
            THEN [acc EXCEPT !.rows = Append(acc.rows, BlankRow(alpha))]
            ELSE IF alpha[1] = 0                    \* ZeroDivisionError, 152
            THEN [acc EXCEPT !.raised = TRUE]
            ELSE [acc EXCEPT !.rows = Append(acc.rows,
                                             FullRow(alpha, min_pairs, max_pairs, k)),
                             !.calls = acc.calls + 6]

(***************************************************************************)
(* Inputs of Spec.  Sample indices sit at and around the two targets.      *)
(***************************************************************************)
RECURSIVE Pow2(_)
Pow2(e) == IF e = 0 THEN 1 ELSE 2 * Pow2(e - 1)

IndexLow  == (ScaleL11 * ScaleL11) \div 2      \* the L11 target of alpha = 1
IndexHigh == 2 * ScaleL13 * ScaleL13           \* above the L13 target of alpha = 1/2

\* rows that are records in both flavours, and rows that are not
RecordShapes ==
    {[n0 |-> IntF(IndexLow),  n1 |-> Blank,           lam |-> NumF(1)],
     [n0 |-> IntF(IndexHigh), n1 |-> Blank,           lam |-> NumF(2)]}
CertShapes ==
    RecordShapes \cup
    {[n0 |-> Blank,           n1 |-> IntF(IndexHigh), lam |-> NumF(1)],
     [n0 |-> IntF(IndexLow),  n1 |-> Blank,           lam |-> Sentinel],
     [n0 |-> Bad,             n1 |-> Blank,           lam |-> NumF(2)]}

Missing == [exists |-> FALSE, header |-> "other", rows |-> <<>>]
CertFiles ==
    {Missing}
    \cup {[exists |-> TRUE, header |-> "ok", rows |-> rs] :
             rs \in UNION {[1..m -> CertShapes] : m \in 0..1}}
    \cup {[exists |-> TRUE, header |-> "ok", rows |-> rs] :
             rs \in [1..2 -> RecordShapes]}
    \cup {[exists |-> TRUE, header |-> "other",
           rows |-> <<[n0 |-> IntF(IndexLow), n1 |-> Blank, lam |-> NumF(1)]>>],
          [exists |-> TRUE, header |-> "ok",
           rows |-> <<[n0 |-> Absent, n1 |-> Blank, lam |-> NumF(1)]>>]}

\* alpha directories sorted by float(tag): ascending alpha is descending
\* exponent; one or two directories, or none
AlphaOf(e) == <<1, Pow2(e)>>
DirLists ==
    {<<>>}
    \cup {<<AlphaOf(e)>> : e \in 0..MaxAlphaExp}
    \cup {<<AlphaOf(p[1]), AlphaOf(p[2])>> :
             p \in {q \in (0..MaxAlphaExp) \X (0..MaxAlphaExp) : q[2] < q[1]}}

Init ==
    /\ cert_flavour \in {"bounds", "lambda"}
    /\ alpha_dirs \in DirLists
    /\ tail_count \in 1..MaxTailCount
    /\ dir_idx = 0 /\ last_read = None /\ rows = <<>> /\ calls = 0
    /\ output = None /\ cert_diag = <<>> /\ listing = <<>> /\ sorted_dirs = <<>>
    /\ cert_pc = "loop"
    /\ SeriesIdle /\ BatchIdle /\ ExtIdle

\* one iteration of the loop over alpha_dirs: the files of the directory
\* are whatever the filesystem holds when they are opened
CertIter ==
    /\ cert_pc = "loop"
    /\ dir_idx < Len(alpha_dirs)
    /\ \E min_file \in CertFiles, max_file \in CertFiles :
          LET acc == cert_body(cert_flavour, alpha_dirs[dir_idx + 1], min_file,
                               max_file, tail_count,
                               [rows |-> rows, calls |-> calls, raised |-> FALSE])
          IN /\ rows' = acc.rows
             /\ calls' = acc.calls
             /\ cert_pc' = IF acc.raised THEN "crashed" ELSE "loop"
             /\ cert_diag' = IF acc.raised THEN Append(cert_diag, "Traceback")
                              ELSE cert_diag
             /\ last_read' = Some([min_file |-> min_file, max_file |-> max_file])
    /\ dir_idx' = dir_idx + 1
    /\ UNCHANGED <<cert_flavour, alpha_dirs, tail_count, output, listing,
                   sorted_dirs, series_vars, batch_vars, ext_vars>>

\* faulty variant: the table is written only when some row has a non-blank
\* derived field
CertFinishNonBlankOnly ==
    /\ cert_pc = "loop"
    /\ dir_idx = Len(alpha_dirs)
    /\ IF \A i \in 1..Len(rows) : rows[i] = BlankRow(rows[i].alpha)
       THEN /\ cert_pc' = "failed" /\ UNCHANGED output
            /\ cert_diag' = Append(cert_diag, "No results found")
       ELSE /\ cert_pc' = "written" /\ output' = Some(rows)
            /\ cert_diag' = Append(cert_diag, "Summary written")
    /\ UNCHANGED <<cert_flavour, alpha_dirs, tail_count, dir_idx, last_read,
                   rows, calls, listing, sorted_dirs, series_vars, batch_vars,
                   ext_vars>>

\* lines 175-198 / 189-212: after the loop, exit(1) without rows, else
\* write the table
CertFinish ==
    /\ cert_pc = "loop"
    /\ dir_idx = Len(alpha_dirs)
    /\ IF rows = <<>>
       THEN /\ cert_pc' = "failed" /\ UNCHANGED output
            /\ cert_diag' = Append(cert_diag, "No results found")
       ELSE /\ cert_pc' = "written" /\ output' = Some(rows)
            /\ cert_diag' = Append(cert_diag, "Summary written")
    /\ UNCHANGED <<cert_flavour, alpha_dirs, tail_count, dir_idx, last_read,
                   rows, calls, listing, sorted_dirs, series_vars, batch_vars,
                   ext_vars>>

Next == CertIter \/ CertFinish

Spec == Init /\ [][Next]_vars

(***************************************************************************)
(* Claims about the rows of the cert table.                                *)
(***************************************************************************)
LastAlpha == alpha_dirs[dir_idx]
LastMin == last_read[1].min_file
LastMax == last_read[1].max_file
Iterated == dir_idx >= 1 /\ last_read # None
AllBlank(r) ==
    /\ r.L11_lo = None /\ r.L11_hi = None /\ r.L13_lo = None /\ r.L13_hi = None
    /\ r.Lfinal_lo = None /\ r.Lfinal_lo_std = None
    /\ r.Lfinal_hi = None /\ r.Lfinal_hi_std = None

\* C9 as stated: an iterated alpha with a missing lower or upper location
\* still has a row in the output table, with the alpha and eight blanks.
C9_MissingGetsBlankRow ==
    (cert_pc = "written" /\ Iterated /\ (~LastMin.exists \/ ~LastMax.exists)) =>
        \E i \in 1..Len(output[1]) :
            output[1][i].alpha = LastAlpha /\ AllBlank(output[1][i])

\* C9 amended: an iterated alpha with a missing lower or upper location is
\* skipped: no row is appended for it, and a written table holds no row
\* for it.
C9_MissingIsSkipped ==
    (Iterated /\ (~LastMin.exists \/ ~LastMax.exists)) =>
        /\ Len(rows) < dir_idx
        /\ \A i \in 1..Len(rows) : rows[i].alpha # LastAlpha
        /\ cert_pc = "written" =>
              \A i \in 1..Len(output[1]) : output[1][i].alpha # LastAlpha

C9_Witness ==
    /\ cert_pc = "written" /\ Iterated
    /\ ~LastMin.exists /\ LastMax.exists
    /\ Len(output[1]) = 1
    /\ output[1][1].alpha # LastAlpha

\* a file loads (no row makes load_lambda_pairs raise) to an empty series:
\* no recognised columns, or no row with a usable index and a defined metric
RowRaises(fl, row) == fl = "bounds" /\ row.n0.k = "absent"
FileLoads(fl, file) ==
    file.header # "ok" \/ \A i \in 1..Len(file.rows) : ~RowRaises(fl, file.rows[i])
RowLoads(fl, row) ==
    IF fl = "bounds"
    THEN row.n0.k = "int" /\ row.lam.k \in {"num", "sentinel"}
    ELSE row.lam.k = "num" /\ (row.n0.k = "int" \/ row.n1.k = "int")
EmptySeries(fl, file) ==
    file.header # "ok" \/ \A i \in 1..Len(file.rows) : ~RowLoads(fl, file.rows[i])

RowIndex(fl, row) ==
    IF fl = "bounds" \/ row.n0.k = "int" THEN row.n0.v ELSE row.n1.v
LoadedRows(fl, file) == {i \in 1..Len(file.rows) : RowLoads(fl, file.rows[i])}
BracketAt(fl, file, t) ==
    /\ \E i \in LoadedRows(fl, file) : LeTarget(RowIndex(fl, file.rows[i]), t)
    /\ \E i \in LoadedRows(fl, file) : GeTarget(RowIndex(fl, file.rows[i]), t)
DefinedCount(fl, file) == Cardinality(LoadedRows(fl, file))
NonEmptyFiles(fl) ==
    {f \in CertFiles : f.exists /\ FileLoads(fl, f) /\ ~EmptySeries(fl, f)}
BothNonEmpty ==
    /\ Iterated
    /\ LastMin \in NonEmptyFiles(cert_flavour)
    /\ LastMax \in NonEmptyFiles(cert_flavour)

\* C23: the row built from two non-empty series has each bracketed-nearest
\* field blank exactly when its series has no bracket at its target, each
\* tail mean and standard deviation blank exactly when its series has
\* fewer than K defined values; the fields of one series are those of the
\* row built from that series alone (they do not depend on the other
\* series), and the iteration raises no error.
C23_FieldsBlankOnOwnPrecondition ==
    BothNonEmpty =>
        /\ cert_pc # "crashed"
        /\ Len(rows) >= 1
        /\ LET r  == rows[Len(rows)]
               fl == cert_flavour
               t1 == Target(ScaleL11, LastAlpha)
               t2 == Target(ScaleL13, LastAlpha)
               PairsOf(f) == load_lambda_pairs(fl, f).pairs
           IN /\ r.alpha = LastAlpha
              /\ (r.L11_lo = None) <=> ~BracketAt(fl, LastMin, t1)
              /\ (r.L11_hi = None) <=> ~BracketAt(fl, LastMax, t1)
              /\ (r.L13_lo = None) <=> ~BracketAt(fl, LastMin, t2)
              /\ (r.L13_hi = None) <=> ~BracketAt(fl, LastMax, t2)
              /\ (r.Lfinal_lo = None) <=> DefinedCount(fl, LastMin) < tail_count
              /\ (r.Lfinal_lo_std = None) <=> DefinedCount(fl, LastMin) < tail_count
              /\ (r.Lfinal_hi = None) <=> DefinedCount(fl, LastMax) < tail_count
              /\ (r.Lfinal_hi_std = None) <=> DefinedCount(fl, LastMax) < tail_count
              /\ LET lo == FullRow(LastAlpha, PairsOf(LastMin), PairsOf(LastMin), tail_count)
                     hi == FullRow(LastAlpha, PairsOf(LastMax), PairsOf(LastMax), tail_count)
                 IN /\ lo.L11_lo = r.L11_lo /\ lo.L13_lo = r.L13_lo
                    /\ lo.Lfinal_lo = r.Lfinal_lo
                    /\ lo.Lfinal_lo_std = r.Lfinal_lo_std
                    /\ hi.L11_hi = r.L11_hi /\ hi.L13_hi = r.L13_hi
                    /\ hi.Lfinal_hi = r.Lfinal_hi
                    /\ hi.Lfinal_hi_std = r.Lfinal_hi_std

\* a row with blank and non-blank fields side by side: the lower series
\* has an L11 bracket but no L13 bracket and too few values for the tail,
\* the upper series has both brackets and enough values
C23_Witness ==
    /\ BothNonEmpty /\ cert_pc = "written"
    /\ LET r == rows[Len(rows)]
       IN /\ r.L11_lo # None /\ r.L13_lo = None
          /\ r.Lfinal_lo = None /\ r.Lfinal_lo_std = None
          /\ r.L11_hi # None /\ r.L13_hi # None
          /\ r.Lfinal_hi # None /\ r.Lfinal_hi_std # None

MaxAuditRows == 2     \* rows of the input table
DecUnit == 10000000

NaN == <<>>
Halve(d) == <<d[1] \div 2, (d[2] + (d[1] % 2) * DecUnit) \div 2>>
RECURSIVE HalfPow(_)
HalfPow(i) == IF i = 0 THEN <<DecUnit, 0>> ELSE Halve(HalfPow(i - 1))
ExtraAlpha == <<10649, 4895768>>       \* 0.00106494895768

\* lines 17-30
TARGET_ALPHAS ==
    <<HalfPow(0), HalfPow(1), HalfPow(2), HalfPow(3), HalfPow(4), HalfPow(5),
      HalfPow(6), HalfPow(7), HalfPow(8), HalfPow(9), ExtraAlpha, HalfPow(10)>>

DefaultTolerance == <<0, 100>>         \* 1e-12, line 37
RoundTripTolerance == <<0, 100000>>    \* 1e-9

\* float(alpha_str), line 55: None stands for the ValueError
float_of(f) ==
    IF f.k = "num" THEN Some(f.v)
    ELSE IF f.k = "nan" THEN Some(NaN)
    ELSE None

\* faulty variant: the difference is not taken in absolute value
WithinSigned(alpha_val, target, tol) ==
    /\ alpha_val # NaN
    /\ LET dc == alpha_val[1] - target[1]
           df == alpha_val[2] - target[2]
       IN \/ dc < 0 - tol[1] - 1
          \/ /\ dc <= tol[1] + 1
             /\ dc * DecUnit + df <= tol[1] * DecUnit + tol[2]

\* abs(alpha_val - target) <= args.tolerance, line 58; a comparison with
\* NaN is false
Within(alpha_val, target, tol) ==
    /\ alpha_val # NaN
    /\ LET dc == alpha_val[1] - target[1]
           df == alpha_val[2] - target[2]
       IN /\ Abs(dc) <= tol[1] + 1
          /\ Abs(dc * DecUnit + df) <= tol[1] * DecUnit + tol[2]

\* faulty variant: only the eleven powers of two are allow-listed
matches_grid_only(alpha_val, tol) ==
    \E i \in 1..Len(TARGET_ALPHAS) :
        TARGET_ALPHAS[i] # ExtraAlpha /\ Within(alpha_val, TARGET_ALPHAS[i], tol)

\* any(... for target in TARGET_ALPHAS), line 58
matches(alpha_val, tol) ==
    \E i \in 1..Len(TARGET_ALPHAS) : Within(alpha_val, TARGET_ALPHAS[i], tol)

\* row.get("alpha", ""), line 53: "" when the header has no alpha column
BlankText == [k |-> "blank", v |-> NaN, sp |-> "repr"]
alpha_str(file, row) == IF file.header = "alpha" THEN row.alpha ELSE BlankText

\* faulty variant: the alpha is written with five decimals, as fmt_value
\* writes the other fields
WriteRowFiveDecimals(row) ==
    [alpha |-> IF row.alpha.k = "num"
               THEN [k |-> "num", sp |-> "repr",
                     v |-> <<RoundHalfEven(row.alpha.v[1], 100) * 100, 0>>]
               ELSE row.alpha,
     rest |-> row.rest, extra |-> FALSE]
\* csv.DictWriter with fieldnames = reader.fieldnames (66-68): a row is
\* written as the header's columns; a row that holds a field outside the
\* header makes writerows raise ValueError after the rows before it were
\* written
WriteRow(row) == [alpha |-> row.alpha, rest |-> row.rest, extra |-> FALSE]
RECURSIVE WriteRows(_, _, _)
WriteRows(rs, i, done) ==
    IF i > Len(rs) THEN [raised |-> FALSE, rows |-> done]
    ELSE IF rs[i].extra THEN [raised |-> TRUE, rows |-> done]
    ELSE WriteRows(rs, i + 1, Append(done, WriteRow(rs[i])))

(***************************************************************************)
(* Inputs of SpecAudit.                                                    *)
(***************************************************************************)
NumText(v, sp) == [k |-> "num", v |-> v, sp |-> sp]
Plus(d, f) == <<d[1], d[2] + f>>
AuditRow(a, r) == [alpha |-> a, rest |-> r, extra |-> FALSE]

AuditShapes ==
    {AuditRow(NumText(HalfPow(0), "repr"), 1),            \* 1.0
     AuditRow(NumText(HalfPow(0), "alt"), 2),             \* 1
     AuditRow(NumText(Plus(HalfPow(0), 50), "repr"), 1),      \* 1 + 5e-13
     AuditRow(NumText(Plus(HalfPow(0), 10000), "repr"), 1),   \* 1 + 1e-10
     AuditRow(NumText(Plus(HalfPow(0), 1000000), "repr"), 1), \* 1 + 1e-8
     AuditRow(NumText(ExtraAlpha, "repr"), 1),
     AuditRow(NumText(HalfPow(10), "repr"), 2),
     AuditRow(NumText(<<3000000, 0>>, "repr"), 1),        \* 0.3
     AuditRow([k |-> "nan", v |-> NaN, sp |-> "repr"], 1),
     AuditRow([k |-> "bad", v |-> NaN, sp |-> "repr"], 1),
     AuditRow(BlankText, 1),
     AuditRow([k |-> "absent", v |-> NaN, sp |-> "repr"], 1),
     [alpha |-> NumText(HalfPow(1), "repr"), rest |-> 1, extra |-> TRUE]}

AuditMissing == [exists |-> FALSE, header |-> "none", rows |-> <<>>]
AuditFiles ==
    {AuditMissing, [exists |-> TRUE, header |-> "none", rows |-> <<>>]}
    \cup {[exists |-> TRUE, header |-> "alpha", rows |-> rs] :
             rs \in SeqsUpTo(AuditShapes, MaxAuditRows)}
    \cup {[exists |-> TRUE, header |-> "other", rows |-> rs] :
             rs \in SeqsUpTo({AuditRow(NumText(HalfPow(0), "repr"), 1)}, 1)}

\* the tables summarizelambdaboundcert.main writes (131-210): at least one
\* row, one per alpha directory in ascending float(tag) order, the alpha
\* written as csv writes a float, whatever directories exist
DecLe(a, b) == a[1] < b[1] \/ (a[1] = b[1] /\ a[2] <= b[2])
CertRowShapes ==
    {AuditRow(NumText(v, "repr"), 1) :
        v \in {HalfPow(0), HalfPow(1), HalfPow(10), ExtraAlpha, <<3000000, 0>>,
               Plus(HalfPow(0), 10000)}}
    \cup {AuditRow(NumText(HalfPow(0), "repr"), 2)}
IsCertTable(file) ==
    /\ file.exists /\ file.header = "alpha"
    /\ Len(file.rows) >= 1
    /\ \A i \in 1..Len(file.rows) : file.rows[i] \in CertRowShapes
    /\ \A i \in 1..Len(file.rows) : \A j \in i..Len(file.rows) :
           DecLe(file.rows[i].alpha.v, file.rows[j].alpha.v)
CertTables ==
    {file \in {[exists |-> TRUE, header |-> "alpha", rows |-> rs] :
                  rs \in SeqsUpTo(CertRowShapes, MaxAuditRows)} : IsCertTable(file)}

OldTable ==
    [header |-> "alpha", rows |-> <<AuditRow(NumText(HalfPow(2), "repr"), 9)>>]

InitAudit ==
    /\ audit_in \in AuditFiles \cup CertTables
    /\ tolerance \in {DefaultTolerance, RoundTripTolerance}
    /\ out_before \in {None, Some(OldTable)}
    /\ audit_out = out_before
    /\ audit_idx = 0 /\ kept = <<>> /\ audit_diag = <<>>
    /\ audit_pc = "start"
    /\ SeriesIdle /\ BatchIdle /\ CertIdle /\ ParseIdle /\ MoreIdle

\* lines 40-49: open and read the input
AuditRead ==
    /\ audit_pc = "start"
    /\ IF ~audit_in.exists
       THEN /\ audit_pc' = "failed"
            /\ audit_diag' = Append(audit_diag, "Error: file not found")
       ELSE IF audit_in.header = "none"
       THEN /\ audit_pc' = "failed"
            /\ audit_diag' = Append(audit_diag, "Error: empty or invalid cert file")
       ELSE /\ audit_pc' = "loop"
            /\ UNCHANGED audit_diag
    /\ UNCHANGED <<audit_in, tolerance, audit_idx, kept, out_before, audit_out,
                   series_vars, batch_vars, cert_vars, parse_vars, more_vars>>

\* lines 52-59: one row; float(None) of a short row is a TypeError, which
\* the except ValueError does not catch
AuditStep ==
    /\ audit_pc = "loop"
    /\ audit_idx < Len(audit_in.rows)
    /\ LET row == audit_in.rows[audit_idx + 1]
           text == alpha_str(audit_in, row)
           alpha_val == float_of(text)
       IN IF text.k = "absent"
          THEN /\ audit_pc' = "crashed"
               /\ audit_diag' = Append(audit_diag, "Traceback")
               /\ UNCHANGED kept
          ELSE /\ kept' = IF alpha_val # None /\ matches(alpha_val[1], tolerance)
                          THEN Append(kept, row)
                          ELSE kept
               /\ UNCHANGED <<audit_pc, audit_diag>>
    /\ audit_idx' = audit_idx + 1
    /\ UNCHANGED <<audit_in, tolerance, out_before, audit_out,
                   series_vars, batch_vars, cert_vars, parse_vars, more_vars>>

\* lines 61-70: exit(1) without kept rows, else write header and rows
AuditFinish ==
    /\ audit_pc = "loop"
    /\ audit_idx = Len(audit_in.rows)
    /\ IF kept = <<>>
       THEN /\ audit_pc' = "failed"
            /\ audit_diag' = Append(audit_diag, "No matching rows found")
            /\ UNCHANGED audit_out
       ELSE LET w == WriteRows(kept, 1, <<>>)
            IN /\ audit_out' = Some([header |-> audit_in.header, rows |-> w.rows])
               /\ audit_pc' = IF w.raised THEN "crashed" ELSE "written"
               /\ audit_diag' = Append(audit_diag, IF w.raised THEN "Traceback"
                                                   ELSE "Summary written")
    /\ UNCHANGED <<audit_in, tolerance, audit_idx, kept, out_before,
                   series_vars, batch_vars, cert_vars, parse_vars, more_vars>>

NextAudit == AuditRead \/ AuditStep \/ AuditFinish

SpecAudit == InitAudit /\ [][NextAudit]_vars

(***************************************************************************)
(* Claims about the audit filter.                                          *)
(***************************************************************************)
DecAdd(a, b) ==
    IF a[2] + b[2] >= DecUnit THEN <<a[1] + b[1] + 1, a[2] + b[2] - DecUnit>>
    ELSE <<a[1] + b[1], a[2] + b[2]>>
DecSub(a, b) ==
    IF a[2] < b[2] THEN <<a[1] - b[1] - 1, a[2] - b[2] + DecUnit>>
    ELSE <<a[1] - b[1], a[2] - b[2]>>
AllowList == {TARGET_ALPHAS[i] : i \in 1..Len(TARGET_ALPHAS)}
\* the row's alpha is a real number t - tolerance <= alpha <= t + tolerance
\* for an allow-listed t
Allowed(row) ==
    /\ audit_in.header = "alpha"
    /\ row.alpha.k = "num"
    /\ \E t \in AllowList :
          /\ DecLe(DecSub(t, tolerance), row.alpha.v)
          /\ DecLe(row.alpha.v, DecAdd(t, tolerance))

AuditDone == audit_pc \in {"written", "failed", "crashed"}
NoHeader == audit_in.exists /\ audit_in.header = "none"
AnyAllowed == \E i \in 1..Len(audit_in.rows) : Allowed(audit_in.rows[i])

\* C13: a finished run has succeeded exactly when at least one input row
\* matches the allow-list; with a missing input, an input without header or
\* no matching row it has failed and the output file is as it was before.
C13_SuccessIffRowKept ==
    AuditDone =>
        /\ (~audit_in.exists \/ NoHeader \/ ~AnyAllowed)
              => (audit_pc # "written" /\ audit_out = out_before)
        /\ audit_pc = "written" <=> (audit_in.exists /\ ~NoHeader /\ AnyAllowed)

(***************************************************************************)
(* Round trip: the audit filter applied to a table the cert builder wrote. *)
(***************************************************************************)
GridAlphas == {HalfPow(i) : i \in 0..10}
OnGrid(row) == row.alpha.k = "num" /\ row.alpha.v \in GridAlphas
Ascending(rs) ==
    \A i \in 1..Len(rs) : \A j \in i..Len(rs) : DecLe(rs[i].alpha.v, rs[j].alpha.v)

\* C14 as stated: filtering a cert table with tolerance 1e-9 yields exactly
\* its rows whose alpha is one of the eleven powers of two 2^0 .. 2^-10,
\* unchanged and in ascending alpha order.
C14_RoundTripKeepsGridRows ==
    (audit_pc = "written" /\ IsCertTable(audit_in)
        /\ tolerance = RoundTripTolerance) =>
        /\ audit_out[1].rows = SelectSeq(audit_in.rows, OnGrid)
        /\ Ascending(audit_out[1].rows)

\* C14 amended: filtering a cert table with tolerance 1e-9 never crashes;
\* it fails and writes nothing when no row is within 1e-9 of one of the
\* twelve allow-listed values (the eleven powers of two and
\* 0.00106494895768), and otherwise yields exactly the rows within 1e-9 of
\* an allow-listed value, unchanged and in ascending alpha order.
C14_RoundTripKeepsAllowListed ==
    (IsCertTable(audit_in) /\ tolerance = RoundTripTolerance) =>
        /\ audit_pc # "crashed"
        /\ audit_pc = "failed" => (~AnyAllowed /\ audit_out = out_before)
        /\ audit_pc = "written" =>
              /\ AnyAllowed
              /\ audit_out[1].header = audit_in.header
              /\ audit_out[1].rows = SelectSeq(audit_in.rows, Allowed)
              /\ Ascending(audit_out[1].rows)

\* the off-grid allow-listed alpha survives next to a grid alpha
C14_Witness ==
    /\ audit_pc = "written" /\ IsCertTable(audit_in)
    /\ tolerance = RoundTripTolerance
    /\ Len(audit_in.rows) = 2
    /\ audit_in.rows[1].alpha.v = HalfPow(10)
    /\ audit_in.rows[2].alpha.v = ExtraAlpha
    /\ audit_out[1].rows = audit_in.rows

(***************************************************************************)
(* main of the audit filter as a function of its input file and tolerance: *)
(* how the run ends and the table it wrote, if any.                        *)
(***************************************************************************)
RECURSIVE audit_scan(_, _, _, _)
audit_scan(file, tol, i, acc) ==        \* lines 52-59
    IF i > Len(file.rows) THEN [raised |-> FALSE, kept |-> acc]
    ELSE LET text == alpha_str(file, file.rows[i])
             alpha_val == float_of(text)
         IN IF text.k = "absent" THEN [raised |-> TRUE, kept |-> acc]
            ELSE audit_scan(file, tol, i + 1,
                            IF alpha_val # None /\ matches(alpha_val[1], tol)
                            THEN Append(acc, file.rows[i]) ELSE acc)

audit_main(file, tol) ==
    IF ~file.exists \/ file.header = "none" THEN [pc |-> "failed", out |-> None]
    ELSE LET s == audit_scan(file, tol, 1, <<>>)
             w == WriteRows(s.kept, 1, <<>>)
         IN IF s.raised THEN [pc |-> "crashed", out |-> None]
            ELSE IF s.kept = <<>> THEN [pc |-> "failed", out |-> None]
            ELSE [pc |-> IF w.raised THEN "crashed" ELSE "written",
                  out |-> Some([header |-> file.header, rows |-> w.rows])]

\* the run agrees with main taken as a function of its input
AuditIsAuditMain ==
    AuditDone =>
        LET r == audit_main(audit_in, tolerance)
        IN /\ r.pc = audit_pc
           /\ audit_out = IF r.out = None THEN out_before ELSE r.out

\* the table a run wrote, read back as an input file
WrittenFile ==
    [exists |-> TRUE, header |-> audit_out[1].header, rows |-> audit_out[1].rows]

\* C29: the table written by a successful run, filtered again with the
\* same tolerance, gives a successful run that writes the same table: the
\* same header and the same rows, row for row.
C29_AuditIdempotent ==
    audit_pc = "written" =>
        audit_main(WrittenFile, tolerance) = [pc |-> "written", out |-> audit_out]

\* a run that dropped a row and kept the row of the power of two 2^-10
C29_Witness ==
    /\ audit_pc = "written"
    /\ Len(audit_in.rows) = 2 /\ Len(audit_out[1].rows) = 1
    /\ audit_out[1].rows[1].alpha.v = HalfPow(10)
    /\ audit_main(WrittenFile, tolerance).out = audit_out

(***************************************************************************)
(* SpecParse: the four metric parsers applied to the same field text.      *)
(***************************************************************************)
Parsers == {"boundratio", "lambdabound", "boundscert", "lambdaboundcert"}
MetricTexts ==
    {Blank, Bad, Sentinel, PaddedSentinel, Absent}
    \cup {NumF(x) : x \in (0 - MaxVal)..MaxVal}

ParseWith(p, f) ==
    IF p = "boundratio" THEN parse_float_ratio(f)
    ELSE IF p = "lambdabound" THEN parse_lambda(f)
    ELSE IF p = "boundscert" THEN parse_float_bounds(f)
    ELSE parse_float_lambda(f)

InitParse ==
    /\ metric_text \in MetricTexts
    /\ parsed = [p \in Parsers |-> [done |-> FALSE, val |-> None]]
    /\ SeriesIdle /\ BatchIdle /\ CertIdle /\ AuditIdle /\ MoreIdle

Parse(p) ==
    /\ ~parsed[p].done
    /\ parsed' = [parsed EXCEPT ![p] = [done |-> TRUE,
                                        val |-> ParseWith(p, metric_text)]]
    /\ UNCHANGED <<metric_text, series_vars, batch_vars, cert_vars, audit_vars,
                   more_vars>>

ParseRatio      == Parse("boundratio")
ParseLambda     == Parse("lambdabound")
ParseBoundsCert == Parse("boundscert")
ParseLambdaCert == Parse("lambdaboundcert")

NextParse == ParseRatio \/ ParseLambda \/ ParseBoundsCert \/ ParseLambdaCert

SpecParse == InitParse /\ [][NextParse]_vars

LambdaFlavoured == {"lambdabound", "lambdaboundcert"}

\* C16: a parser gives "undefined" exactly for a blank (or absent) field, a
\* text that is not a number and, in the lambda-flavoured summarizers only,
\* the text 0.000000; every other text, 0.000000 with blanks around it
\* included, is the number it spells.
C16_UndefinedExactly ==
    \A p \in Parsers :
        parsed[p].done =>
            LET undefined == \/ metric_text.k \in {"blank", "absent", "bad"}
                             \/ p \in LambdaFlavoured /\ metric_text.k = "sentinel"
            IN IF undefined THEN parsed[p].val = None
               ELSE parsed[p].val = Some(metric_text.v)

(***************************************************************************)
(* SpecRun: a whole run of main of the cert-table builders over a fixed    *)
(* filesystem.  listing holds the alpha-* directories in the order         *)
(* iterdir() yields them, each with its tag (the text after "alpha-", with *)
(* val = None when float(tag) raises ValueError) and its two input files.  *)
(***************************************************************************)
MaxDirs == 2      \* alpha-* directories under output/

Tag(name, val) == [name |-> name, val |-> val]
RunTags ==
    {Tag("1", Some(<<1, 1>>)), Tag("1.0", Some(<<1, 1>>)),
     Tag("0.5", Some(<<1, 2>>)), Tag("0", Some(<<0, 1>>)), Tag("x", None)}

FileOf(rs) == [exists |-> TRUE, header |-> "ok", rows |-> rs]
RunInputs ==
    LET one   == FileOf(<<[n0 |-> IntF(IndexLow), n1 |-> Blank, lam |-> NumF(1)]>>)
        two   == FileOf(<<[n0 |-> IntF(IndexLow), n1 |-> Blank, lam |-> NumF(1)],
                          [n0 |-> IntF(IndexHigh), n1 |-> Blank, lam |-> NumF(2)]>>)
        short == FileOf(<<[n0 |-> Absent, n1 |-> Blank, lam |-> NumF(1)]>>)
    IN {<<Missing, one>>, <<FileOf(<<>>), one>>, <<one, one>>, <<two, two>>,
        <<short, one>>}
RunEntries ==
    {[tag |-> t, min_file |-> f[1], max_file |-> f[2]] : t \in RunTags, f \in RunInputs}
\* directory names are pairwise distinct
Listings ==
    {l \in SeqsUpTo(RunEntries, MaxDirs) :
        \A i, j \in 1..Len(l) : i # j => l[i].tag.name # l[j].tag.name}

\* sorted(dirs, key=lambda p: float(tag)), lines 116-120 / 131-135: the
\* key of every element is computed first (ValueError for a tag that is
\* not a number); the sort is stable, entries with equal keys keep the
\* order of the listing
FracLess(a, b) == a[1] * b[2] < b[1] * a[2]
RECURSIVE InsertByKey(_, _)
InsertByKey(e, l) ==      \* e goes after every entry whose key is not greater
    IF l = <<>> THEN <<e>>
    ELSE IF FracLess(e.tag.val[1], l[1].tag.val[1]) THEN <<e>> \o l
    ELSE <<l[1]>> \o InsertByKey(e, Tail(l))
RECURSIVE StableSort(_, _)
StableSort(l, n) ==       \* the first n entries of l, sorted
    IF n = 0 THEN <<>> ELSE InsertByKey(l[n], StableSort(l, n - 1))
sorted_alpha_dirs(l) ==
    IF \E i \in 1..Len(l) : l[i].tag.val = None
    THEN [raised |-> TRUE, dirs |-> <<>>]
    ELSE [raised |-> FALSE, dirs |-> StableSort(l, Len(l))]

\* the loop body for one directory, lines 123-173 / 138-187
run_body(fl, entry, k, acc) ==
    IF entry.tag.val = None THEN acc               \* except ValueError: continue
    ELSE cert_body(fl, entry.tag.val[1], entry.min_file, entry.max_file, k, acc)

RECURSIVE run_loop(_, _, _, _, _)
run_loop(fl, dirs, k, i, acc) ==
    IF i > Len(dirs) \/ acc.raised THEN acc
    ELSE run_loop(fl, dirs, k, i + 1, run_body(fl, dirs[i], k, acc))

\* main as a function of the listing: how the run ends and what it wrote
run_main(fl, l, k) ==
    LET s == sorted_alpha_dirs(l)
        acc == run_loop(fl, s.dirs, k, 1,
                        [rows |-> <<>>, calls |-> 0, raised |-> FALSE])
    IN IF s.raised \/ acc.raised THEN [pc |-> "crashed", output |-> None]
       ELSE IF acc.rows = <<>> THEN [pc |-> "failed", output |-> None]
       ELSE [pc |-> "written", output |-> Some(acc.rows)]

InitRun ==
    /\ cert_flavour \in {"bounds", "lambda"}
    /\ listing \in Listings
    /\ tail_count \in 1..MaxTailCount
    /\ alpha_dirs = <<>> /\ sorted_dirs = <<>>
    /\ dir_idx = 0 /\ last_read = None /\ rows = <<>> /\ calls = 0
    /\ output = None /\ cert_diag = <<>>
    /\ cert_pc = "list"
    /\ SeriesIdle /\ BatchIdle /\ ExtIdle

\* lines 115-120 / 130-135: list the alpha-* directories and sort them
CertList ==
    /\ cert_pc = "list"
    /\ LET s == sorted_alpha_dirs(listing)
       IN /\ sorted_dirs' = s.dirs
          /\ alpha_dirs' = [i \in 1..Len(s.dirs) |-> s.dirs[i].tag.val[1]]
          /\ cert_pc' = IF s.raised THEN "crashed" ELSE "loop"
          /\ cert_diag' = IF s.raised THEN Append(cert_diag, "Traceback")
                          ELSE cert_diag
    /\ UNCHANGED <<cert_flavour, listing, tail_count, dir_idx, last_read, rows,
                   calls, output, series_vars, batch_vars, ext_vars>>

\* one iteration of the loop, the files being those of the directory
CertIterListed ==
    /\ cert_pc = "loop"
    /\ sorted_dirs # <<>>
    /\ dir_idx < Len(sorted_dirs)
    /\ LET entry == sorted_dirs[dir_idx + 1]
           acc == run_body(cert_flavour, entry, tail_count,
                           [rows |-> rows, calls |-> calls, raised |-> FALSE])
       IN /\ rows' = acc.rows
          /\ calls' = acc.calls
          /\ cert_pc' = IF acc.raised THEN "crashed" ELSE "loop"
          /\ cert_diag' = IF acc.raised THEN Append(cert_diag, "Traceback")
                          ELSE cert_diag
          /\ last_read' = Some([min_file |-> entry.min_file,
                                max_file |-> entry.max_file])
    /\ dir_idx' = dir_idx + 1
    /\ UNCHANGED <<cert_flavour, alpha_dirs, tail_count, output, listing,
                   sorted_dirs, series_vars, batch_vars, ext_vars>>

NextRun == CertList \/ CertIterListed \/ CertFinish

SpecRun == InitRun /\ [][NextRun]_vars

(***************************************************************************)
(* Claims about whole runs of the cert-table builders.                     *)
(***************************************************************************)
RunDone == cert_pc \in {"written", "failed", "crashed"}

\* C18: whatever the directories and files hold, a run completes: it ends
\* by writing its table or, only when no row was produced, by the failure
\* exit; it never ends with an uncaught exception.
C18_OnlyZeroRowsFails ==
    RunDone =>
        /\ cert_pc # "crashed"
        /\ cert_pc = "failed" <=> rows = <<>>

\* C20: the end of a run and the table it wrote are the same for every
\* order in which the filesystem could have enumerated the same directories.
C20_OrderIndependent ==
    RunDone =>
        \A p \in Permutations(1..Len(listing)) :
            run_main(cert_flavour, [i \in 1..Len(listing) |-> listing[p[i]]],
                     tail_count)
              = [pc |-> cert_pc, output |-> output]

\* the run agrees with main taken as a function of its listing
RunIsRunMain ==
    RunDone => run_main(cert_flavour, listing, tail_count)
                  = [pc |-> cert_pc, output |-> output]

\* the run over the single directory e: its row comes from the alpha and
\* the two inputs of e alone
Alone(e) == run_main(cert_flavour, <<e>>, tail_count)
InOutput(r) == cert_pc = "written" /\ \E j \in 1..Len(output[1]) : output[1][j] = r

\* C25: the row that an alpha's own value and inputs produce is in the
\* table of every run that lists this alpha, whatever the inputs of the
\* other alphas of the run are.
C25_RowIndependentOfOtherAlphas ==
    RunDone =>
        \A i \in 1..Len(listing) :
            Alone(listing[i]).pc = "written" => InOutput(Alone(listing[i]).output[1][1])

\* the same holds of every run that did not end with an uncaught exception
RowsIndependentUnlessCrashed ==
    (RunDone /\ cert_pc # "crashed") =>
        \A i \in 1..Len(listing) :
            Alone(listing[i]).pc = "written" => InOutput(Alone(listing[i]).output[1][1])

(***************************************************************************)
(* Claims about the diagnostics and the output file.                       *)
(***************************************************************************)
\* C17: when the lower or the upper input of an iterated alpha is missing,
\* main has printed a warning on stderr, the alpha is skipped and the run
\* goes on: it is not aborted, and it fails only with zero rows.
C17_MissingIsWarnedAndSkipped ==
    (Iterated /\ (~LastMin.exists \/ ~LastMax.exists)) =>
        /\ \E i \in 1..Len(cert_diag) :
              cert_diag[i] \notin {"Traceback", "No results found", "Summary written"}
        /\ Len(rows) < dir_idx
        /\ cert_pc # "crashed"
        /\ cert_pc = "failed" => rows = <<>>

\* C19: the output file of the audit filter is as it was before the run
\* until the last input row has been processed, it is then written once
\* with the whole table, and a run that fails leaves it as it was.
C19_OutputWrittenOnceWhole ==
    /\ audit_pc \in {"start", "loop", "failed", "crashed"} => audit_out = out_before
    /\ audit_pc = "written" =>
          /\ audit_idx = Len(audit_in.rows)
          /\ audit_out = Some([header |-> audit_in.header, rows |-> kept])

(***************************************************************************)
(* SpecIndex: the sample index of one row of a dual-index file, as         *)
(* summarizelambdabound.process_file (99-106) and as                       *)
(* summarizelambdaboundcert.load_lambda_pairs (66-81) take it.  The row    *)
(* has the columns n_0, n_1 and the metric, and the column n when the      *)
(* file has one.                                                           *)
(***************************************************************************)
IndexReaders == {"lambdabound", "lambdaboundcert"}
IndexTexts == {Blank, Bad} \cup {IntF(n) : n \in 1..MaxN}
IndexRows ==
    {[n0 |-> a, n1 |-> b, lam |-> m] :
        a \in IndexTexts, b \in IndexTexts, m \in {Blank, NumF(1)}}
    \cup {[n0 |-> a, n1 |-> b, lam |-> NumF(1), n |-> IntF(MaxN)] :
             a \in {Blank, Bad}, b \in {Blank, Bad}}

Skipped  == [k |-> "skipped", n |-> 0]      \* the row is left out
Failed   == [k |-> "raised", n |-> 0]       \* ValueError leaves the loop
Taken(n) == [k |-> "taken", n |-> n]        \* the row counts, with index n

\* what the scan of process_file makes of the row, as the only row of a window
index_of_process_file(row) ==
    LET acc == ScanRowLambda(ScanInit, row)
    IN IF acc.raised THEN Failed
       ELSE IF acc.min_lambda_n = None THEN Skipped
       ELSE Taken(acc.min_lambda_n[1])

\* what load_lambda_pairs makes of the row, as the only row of the file
index_of_load_lambda_pairs(row) ==
    LET one == LoadRowLambda(row)
    IN IF one.raised THEN Failed
       ELSE IF one.pairs = <<>> THEN Skipped
       ELSE Taken(one.pairs[1][1])

IndexWith(r, row) ==
    IF r = "lambdabound" THEN index_of_process_file(row)
    ELSE index_of_load_lambda_pairs(row)

InitIndex ==
    /\ index_row \in IndexRows
    /\ index_out = [r \in IndexReaders |-> [done |-> FALSE, res |-> Skipped]]
    /\ SeriesIdle /\ BatchIdle /\ CertIdle /\ AuditIdle /\ ParseIdle /\ PlotIdle

ReadIndex(r) ==
    /\ ~index_out[r].done
    /\ index_out' = [index_out EXCEPT ![r] = [done |-> TRUE,
                                              res |-> IndexWith(r, index_row)]]
    /\ UNCHANGED <<index_row, series_vars, batch_vars, cert_vars, audit_vars,
                   parse_vars, plot_vars>>

ReadIndexPlot == ReadIndex("lambdabound")
ReadIndexCert == ReadIndex("lambdaboundcert")

NextIndex == ReadIndexPlot \/ ReadIndexCert

SpecIndex == InitIndex /\ [][NextIndex]_vars

\* the first of n_0, n_1 that holds an integer, None when neither does
FirstUsable(row) ==
    IF row.n0.k = "int" THEN Some(row.n0.v)
    ELSE IF row.n1.k = "int" THEN Some(row.n1.v)
    ELSE None

\* C24: for a row with a defined metric, each of the two readers takes the
\* index from the first of n_0, n_1 that holds an integer and leaves the
\* row out when neither does, so both accept the same rows with the same
\* index, whatever n_0 and n_1 hold.
C24_SameIndexBothReaders ==
    \A r \in IndexReaders :
        (index_out[r].done /\ index_row.lam.k = "num") =>
            index_out[r].res = IF FirstUsable(index_row) = None THEN Skipped
                               ELSE Taken(FirstUsable(index_row)[1])

(***************************************************************************)
(* SpecPlot: main of the plotting summarizers (summarizeboundratio.py      *)
(* 146-210, summarizelambdabound.py 138-215) with the alpha grid           *)
(* POWER_OF_2_ALPHAS and format_alpha (26-56 in both files).               *)
(*                                                                         *)
(* A float is an exact decimal <<c, f>> as in the audit filter.  A text of *)
(* digits is [int, frac]: the integer part and the digits after the point, *)
(* frac = <<>> when the text has no point ("1" is [1, <<>>], "1.0" is      *)
(* [1, <<0>>]).                                                            *)
(***************************************************************************)
MaxPresent == 2       \* alpha directories that exist under output/
GridSize == 11        \* range(11), line 26

Text(int, frac) == [int |-> int, frac |-> frac]

RECURSIVE Pow10(_)
Pow10(e) == IF e = 0 THEN 1 ELSE 10 * Pow10(e - 1)
RECURSIVE DigitsValue(_, _, _)
DigitsValue(ds, from, to) ==       \* the digits from..to of ds as one number
    IF from > to THEN 0
    ELSE (IF to <= Len(ds) THEN ds[to] ELSE 0) + 10 * DigitsValue(ds, from, to - 1)
\* float(text): the number a text of at most fourteen decimals spells
TextValue(t) == <<t.int * DecUnit + DigitsValue(t.frac, 1, 7), DigitsValue(t.frac, 8, 14)>>
\* a float literal of the source
FloatLit(int, frac) == TextValue(Text(int, frac))

\* str(alpha) of a float 0.0001 <= alpha < 10 with at most fourteen
\* decimals: the shortest decimal text, with at least one digit after the point
DigitAt(d, k) ==                   \* the k-th decimal of d, k in 1..14
    IF k <= 7 THEN ((d[1] % DecUnit) \div Pow10(7 - k)) % 10
    ELSE (d[2] \div Pow10(14 - k)) % 10
LastDigit(d) ==
    LET nz == {k \in 1..14 : DigitAt(d, k) # 0}
    IN IF nz = {} THEN 1 ELSE CHOOSE k \in nz : \A j \in nz : j <= k
str(d) == Text(d[1] \div DecUnit, [k \in 1..LastDigit(d) |-> DigitAt(d, k)])

\* POWER_OF_2_ALPHAS, lines 26-28: [1.0 / (2**i) for i in range(11)], reversed
PowersDescending == [i \in 1..GridSize |-> HalfPow(i - 1)]
POWER_OF_2_ALPHAS ==
    [i \in 1..GridSize |-> PowersDescending[GridSize + 1 - i]]

\* the result of format_alpha with the branch that produced it: "case" for
\* one of the literal comparisons, "str" for the fallback of line 56
Case(t) == [text |-> t, via |-> "case"]
Fallback(t) == [text |-> t, via |-> "str"]

\* faulty variant: no special case for 1.0, which goes through str()
format_alpha_without_one(alpha) ==
    IF alpha = FloatLit(0, <<5>>) THEN Case(Text(0, <<5>>))
    ELSE IF alpha = FloatLit(0, <<2, 5>>) THEN Case(Text(0, <<2, 5>>))
    ELSE IF alpha = FloatLit(0, <<1, 2, 5>>) THEN Case(Text(0, <<1, 2, 5>>))
    ELSE IF alpha = FloatLit(0, <<0, 6, 2, 5>>) THEN Case(Text(0, <<0, 6, 2, 5>>))
    ELSE IF alpha = FloatLit(0, <<0, 3, 1, 2, 5>>) THEN Case(Text(0, <<0, 3, 1, 2, 5>>))
    ELSE IF alpha = FloatLit(0, <<0, 1, 5, 6, 2, 5>>)
         THEN Case(Text(0, <<0, 1, 5, 6, 2, 5>>))
    ELSE IF alpha = FloatLit(0, <<0, 0, 7, 8, 1, 2, 5>>)
         THEN Case(Text(0, <<0, 0, 7, 8, 1, 2, 5>>))
    ELSE IF alpha = FloatLit(0, <<0, 0, 3, 9, 0, 6, 2, 5>>)
         THEN Case(Text(0, <<0, 0, 3, 9, 0, 6, 2, 5>>))
    ELSE IF alpha = FloatLit(0, <<0, 0, 1, 9, 5, 3, 1, 2, 5>>)
         THEN Case(Text(0, <<0, 0, 1, 9, 5, 3, 1, 2, 5>>))
    ELSE IF alpha = FloatLit(0, <<0, 0, 0, 9, 7, 6, 5, 6, 2, 5>>)
         THEN Case(Text(0, <<0, 0, 0, 9, 7, 6, 5, 6, 2, 5>>))
    ELSE Fallback(str(alpha))

\* format_alpha, lines 31-56: a chain of comparisons with float literals,
\* each returning its own string literal, then str(alpha)
format_alpha(alpha) ==
    IF alpha = FloatLit(1, <<0>>) THEN Case(Text(1, <<>>))
    ELSE IF alpha = FloatLit(0, <<5>>) THEN Case(Text(0, <<5>>))
    ELSE IF alpha = FloatLit(0, <<2, 5>>) THEN Case(Text(0, <<2, 5>>))
    ELSE IF alpha = FloatLit(0, <<1, 2, 5>>) THEN Case(Text(0, <<1, 2, 5>>))
    ELSE IF alpha = FloatLit(0, <<0, 6, 2, 5>>) THEN Case(Text(0, <<0, 6, 2, 5>>))
    ELSE IF alpha = FloatLit(0, <<0, 3, 1, 2, 5>>) THEN Case(Text(0, <<0, 3, 1, 2, 5>>))
    ELSE IF alpha = FloatLit(0, <<0, 1, 5, 6, 2, 5>>)
         THEN Case(Text(0, <<0, 1, 5, 6, 2, 5>>))
    ELSE IF alpha = FloatLit(0, <<0, 0, 7, 8, 1, 2, 5>>)
         THEN Case(Text(0, <<0, 0, 7, 8, 1, 2, 5>>))
    ELSE IF alpha = FloatLit(0, <<0, 0, 3, 9, 0, 6, 2, 5>>)
         THEN Case(Text(0, <<0, 0, 3, 9, 0, 6, 2, 5>>))
    ELSE IF alpha = FloatLit(0, <<0, 0, 1, 9, 5, 3, 1, 2, 5>>)
         THEN Case(Text(0, <<0, 0, 1, 9, 5, 3, 1, 2, 5>>))
    ELSE IF alpha = FloatLit(0, <<0, 0, 0, 9, 7, 6, 5, 6, 2, 5>>)
         THEN Case(Text(0, <<0, 0, 0, 9, 7, 6, 5, 6, 2, 5>>))
    ELSE Fallback(str(alpha))

\* process_file as a function of the rows and a window size W >= 1: the
\* list it returns, and whether the except branch was taken
RECURSIVE process_windows(_, _, _, _, _)
process_windows(fl, rs, w, start, res) ==
    LET batch_end == Min2(start + w, Len(rs))
        acc  == ScanBatch(fl, PySlice(rs, start, batch_end), 1, ScanInit)
        keep == acc.min_lambda # None \/ acc.max_lambda # None
        res2 == IF keep THEN Append(res, BatchResult(acc)) ELSE res
    IN IF acc.raised THEN [raised |-> TRUE, results |-> <<>>]
       ELSE IF start = 0 THEN [raised |-> FALSE, results |-> res2]
       ELSE process_windows(fl, rs, w, Max2(0, start - w), res2)
process_file(fl, rs, w) ==
    IF Len(rs) = 0 THEN [raised |-> FALSE, results |-> <<>>]
    ELSE process_windows(fl, rs, w, Max2(0, Len(rs) - w), <<>>)

\* the step-wise run of SpecBatch agrees with process_file
BatchIsProcessFile ==
    (batch_pc \in {"done", "error"} /\ batch_size >= 1) =>
        process_file(flavour, file_rows, batch_size)
            = [raised |-> batch_pc = "error", results |-> results]

\* 'alpha': alpha_value, lines 128 / 119
WithAlpha(alpha, r) ==
    [alpha |-> alpha, n_min_lambda |-> r.n_min_lambda, min_lambda |-> r.min_lambda,
     n_max_lambda |-> r.n_max_lambda, max_lambda |-> r.max_lambda]

(***************************************************************************)
(* Inputs of SpecPlot: some directories alpha-<name> exist, each with its  *)
(* input file or without it.                                               *)
(***************************************************************************)
PlotRow(n, m) == [n0 |-> n, n1 |-> Blank, lam |-> m]
NoSuchFile == [exists |-> FALSE, rows |-> <<>>]
PlotFiles ==
    {NoSuchFile,
     [exists |-> TRUE, rows |-> <<>>],
     [exists |-> TRUE, rows |-> <<PlotRow(IntF(1), Blank)>>],
     [exists |-> TRUE, rows |-> <<PlotRow(IntF(1), NumF(1))>>],
     [exists |-> TRUE, rows |-> <<PlotRow(IntF(1), NumF(2)), PlotRow(IntF(2), NumF(1))>>],
     [exists |-> TRUE, rows |-> <<PlotRow(Bad, NumF(1))>>]}
\* directory names: "1", "1.0", "0.5", "0.0009765625"
PlotNames ==
    {Text(1, <<>>), Text(1, <<0>>), Text(0, <<5>>),
     Text(0, <<0, 0, 0, 9, 7, 6, 5, 6, 2, 5>>)}
PlotTrees ==
    UNION {[D -> PlotFiles] : D \in {E \in SUBSET PlotNames : Cardinality(E) <= MaxPresent}}

InitPlot ==
    /\ plot_flavour \in {"ratio", "lambda"}
    /\ plot_batch \in IF plot_flavour = "ratio" THEN {1, LambdaBatchSize}
                      ELSE {LambdaBatchSize}
    /\ plot_tree \in PlotTrees
    /\ grid_idx = 0 /\ tags = <<>> /\ all_results = <<>> /\ plot_diag = <<>>
    /\ plot_out = None
    /\ plot_pc = "loop"
    /\ SeriesIdle /\ BatchIdle /\ CertIdle /\ AuditIdle /\ ParseIdle /\ IndexIdle

\* one iteration of `for alpha in POWER_OF_2_ALPHAS` (169-184 / 183-201)
PlotIter ==
    /\ plot_pc = "loop"
    /\ grid_idx < Len(POWER_OF_2_ALPHAS)
    /\ LET alpha == POWER_OF_2_ALPHAS[grid_idx + 1]
           tag == format_alpha(alpha)
       IN /\ tags' = Append(tags, tag)
          /\ IF tag.text \notin DOMAIN plot_tree
             THEN /\ plot_diag' = Append(plot_diag, "Warning: Directory does not exist")
                  /\ UNCHANGED all_results
             ELSE IF ~plot_tree[tag.text].exists
             THEN /\ plot_diag' = Append(plot_diag, "Warning: File does not exist")
                  /\ UNCHANGED all_results
             ELSE LET r == process_file(plot_flavour, plot_tree[tag.text].rows,
                                        plot_batch)
                  IN /\ all_results' = all_results \o
                            [i \in 1..Len(r.results) |-> WithAlpha(alpha, r.results[i])]
                     /\ plot_diag' = IF r.raised
                                     THEN Append(plot_diag, "Error processing")
                                     ELSE plot_diag
    /\ grid_idx' = grid_idx + 1
    /\ UNCHANGED <<plot_flavour, plot_batch, plot_tree, plot_out, plot_pc,
                   series_vars, batch_vars, cert_vars, audit_vars, parse_vars,
                   index_vars>>

\* after the loop (186-210 / 203-212): exit(1) without rows, else write
PlotFinish ==
    /\ plot_pc = "loop"
    /\ grid_idx = Len(POWER_OF_2_ALPHAS)
    /\ IF all_results = <<>>
       THEN /\ plot_pc' = "failed" /\ UNCHANGED plot_out
            /\ plot_diag' = Append(plot_diag, "No results found")
       ELSE /\ plot_pc' = "written" /\ plot_out' = Some(all_results)
            /\ plot_diag' = Append(plot_diag, "Summary written")
    /\ UNCHANGED <<plot_flavour, plot_batch, plot_tree, grid_idx, tags, all_results,
                   series_vars, batch_vars, cert_vars, audit_vars, parse_vars,
                   index_vars>>

NextPlot == PlotIter \/ PlotFinish

SpecPlot == InitPlot /\ [][NextPlot]_vars

(***************************************************************************)
(* Claims about the alpha grid.                                            *)
(***************************************************************************)
\* C21: the grid has eleven entries, 2^-10 first and 2^0 last, strictly
\* ascending; format_alpha gives each of them, through one of its special
\* cases and never through str(), the finite decimal text that spells the
\* value exactly ("0.0009765625" for the first, "0.5" and "1" for the last
\* two), and the eleven tags are pairwise distinct.
C21_GridAndTags ==
    /\ Len(POWER_OF_2_ALPHAS) = 11
    /\ \A i \in 1..11 : POWER_OF_2_ALPHAS[i] = HalfPow(11 - i)
    /\ \A i \in 1..10 : /\ DecLe(POWER_OF_2_ALPHAS[i], POWER_OF_2_ALPHAS[i + 1])
                        /\ POWER_OF_2_ALPHAS[i] # POWER_OF_2_ALPHAS[i + 1]
    /\ Len(tags) = grid_idx
    /\ \A i \in 1..Len(tags) :
          /\ tags[i].via = "case"
          /\ TextValue(tags[i].text) = POWER_OF_2_ALPHAS[i]
          /\ \A j \in 1..Len(tags) : i # j => tags[i].text # tags[j].text
    /\ Len(tags) >= 1 => tags[1].text = Text(0, <<0, 0, 0, 9, 7, 6, 5, 6, 2, 5>>)
    /\ Len(tags) >= 10 => tags[10].text = Text(0, <<5>>)
    /\ Len(tags) = 11 => tags[11].text = Text(1, <<>>)

\* the whole grid has been formatted; the directories alpha-1 and
\* alpha-0.0009765625 were found by their tags and both have rows in the
\* table, the directory alpha-1.0 would not have been looked at
C21_Witness ==
    /\ plot_pc = "written" /\ Len(tags) = 11
    /\ \E i, j \in 1..Len(plot_out[1]) :
          /\ i < j
          /\ plot_out[1][i].alpha = HalfPow(10)
          /\ plot_out[1][j].alpha = HalfPow(0)

====
